---------------------------- MODULE Spec2Model ----------------------------
(***************************************************************************)
(* A model of zerodha_api: the rate-limited historical fetcher             *)
(* (connect/main.py), the tick stream coordinator (ticker/main.py) and the *)
(* tick cache task (amqp/main.py).                                         *)
(*                                                                         *)
(* The three components run as independent processes that share only the   *)
(* key-value store, so each has a specification of its own (SpecFetcher,   *)
(* SpecTicker, SpecCache) over the one set of variables; a specification   *)
(* leaves the other components' variables at their initial values.         *)
(***************************************************************************)
EXTENDS Integers, Sequences, FiniteSets

VARIABLES
    \* ---- Connect (connect/main.py) ----
    pc,               \* position of the fetching thread
    request,          \* arguments of the running historical_data call
    from_date,        \* _get_historical_step1's from_date
    to_date,          \* _get_historical_step1's to_date (moves back per chunk)
    fd_new,           \* lower bound of the window being fetched
    is_break,         \* _get_historical_step1's is_break
    chunked,          \* whether dt_diff > threshold_limit selected the loop
    historical_dfs,   \* the frames collected so far
    attempt_number,   \* retrying's attempt counter of the running venue call
    last_wait,        \* delay (ms) slept before the current attempt, 0 if none
    elapsed_time,     \* step2's elapsed_time (None when no timestamp stored)
    slept,            \* duration handed to time.sleep by step2 (ticks)
    since_read,       \* time passed since step2 read the timestamp (ticks)
    response,         \* what the venue call returned to step2
    venue_calls,      \* the chunk fetches issued to the venue, in order
    outcome,          \* what historical_data gave its caller
    rate_limit,       \* store key kc:rate_limit:historical_api, as its age
    \* ---- Ticker (ticker/main.py) ----
    ws_state,         \* the streaming session: idle, connecting, streaming, ...
    handler,          \* the callback running, or the one that ran last
    t_pc,             \* position inside the running callback ("idle": none)
    ticks,            \* on_ticks' argument
    merged,           \* the callback's local list `subscriptions`
    trace,            \* the calls the running (or last) callback has made
    stop_held,        \* stop has read "1" ever since the callback was invoked
    kt_stop,          \* store key kt:flag:stop
    kt_subscriptions_update,  \* store key kt:flag:subscriptions_update
    kt_is_live,       \* store key kt:flag:is_live, as its remaining TTL
    kt_order_update,  \* store key kt:flag:order_update
    kt_subscriptions, \* store list kt:data:subscriptions
    task_queue,       \* the tasks submitted to the queue and not yet taken
    pending_ids,      \* ids on the list when "1" was written, in no subscribe call yet
    subscribed_ids,   \* dynamic ids that some subscribe call has contained
    \* ---- cache_on_redis (amqp/main.py) ----
    worker,           \* per queue worker: the task it runs and where it is
    deliveries,       \* tasks the queue has delivered so far
    kt_ltp,           \* store keys kt:ltp:<token>
    kt_ticks,         \* store lists kt:<token>
    kt_snapshot,      \* store key kt:data:snapshot_data
    kt_tick_data,     \* store list kt:data:tick_data
    \* ---- several processes in _get_historical_step2 (connect/main.py) ----
    caller_pc,        \* per process: where it is in step2
    caller_sleep,     \* per process: what is left of its time.sleep
    recent_calls      \* the venue calls started less than MinInterval ago

fetcherVars ==
    << pc, request, from_date, to_date, fd_new, is_break, chunked,
       historical_dfs, attempt_number, last_wait, elapsed_time, slept,
       since_read, response, venue_calls, outcome, rate_limit >>

tickerVars ==
    << ws_state, handler, t_pc, ticks, merged, trace, stop_held, kt_stop,
       kt_subscriptions_update, kt_is_live, kt_order_update, kt_subscriptions,
       task_queue, pending_ids, subscribed_ids >>

cacheVars == << worker, deliveries, kt_ltp, kt_ticks, kt_snapshot, kt_tick_data >>

limiterVars == << caller_pc, caller_sleep, recent_calls >>

\* What one fetcher process holds for itself: all but the shared timestamp.
fetcherOwnVars ==
    << pc, request, from_date, to_date, fd_new, is_break, chunked,
       historical_dfs, attempt_number, last_wait, elapsed_time, slept,
       since_read, response, venue_calls, outcome >>

vars == << fetcherVars, tickerVars, cacheVars, limiterVars >>

\* Python's None where the value is otherwise a string.
None == "None"
\* An optional number or date string is a sequence: << >> is None, << x >>
\* (or the date triple itself) a value.
Absent == << >>
\* No datetime assigned yet.
NoDate == [ord |-> 0, sec |-> 0]

-----------------------------------------------------------------------------
(* Bounds of the model.                                                    *)

\* Clock resolution: ticks per minimum call interval (1/3 second).
Resolution == 3
\* Ages of the stored timestamp saturate this many ticks past the interval.
AgeSlack == 1
\* Request from-dates are BaseYmd + 0 .. BaseYmd + MaxFromShift.
MaxFromShift == 1
\* The venue holds a bar every BarEvery-th day counted from BaseYmd.
BarEvery == 15
\* Revisions of a bar's values the venue may answer with: 0 .. MaxRev.
MaxRev == 1
\* Entries the dynamic subscription list may grow to.
MaxDynamic == 2
\* Tasks the queue may hold before a further batch arrives.
MaxQueue == 1
\* Tasks the queue delivers to the cache workers.
MaxDeliveries == 3
\* Venue calls that may start within one MinInterval.
MaxRecent == 3

-----------------------------------------------------------------------------
(* Program constants.                                                      *)

KITE_HISTORICAL_DATA_REQUEST_INTERVAL_LIMIT == 60
stop_max_attempt_number == 5
wait_fixed == 5000

-----------------------------------------------------------------------------
(* Calendar arithmetic of datetime: a datetime is [ord, sec], the          *)
(* proleptic Gregorian ordinal of its date and the second of its day; a    *)
(* "%Y-%m-%d" string is the triple <<year, month, day>>.                   *)

IsLeap(y) == y % 4 = 0 /\ (y % 100 # 0 \/ y % 400 = 0)

DaysInMonth(y, m) ==
    IF m = 2 THEN (IF IsLeap(y) THEN 29 ELSE 28)
    ELSE IF m \in {4, 6, 9, 11} THEN 30 ELSE 31

RECURSIVE DaysBeforeMonth(_, _)
DaysBeforeMonth(y, m) ==
    IF m <= 1 THEN 0 ELSE DaysBeforeMonth(y, m - 1) + DaysInMonth(y, m - 1)

DaysBeforeYear(y) ==
    LET p == y - 1 IN p * 365 + (p \div 4) - (p \div 100) + (p \div 400)

\* date.toordinal of a parsed "%Y-%m-%d" string
Ymd2Ord(ymd) == DaysBeforeYear(ymd[1]) + DaysBeforeMonth(ymd[1], ymd[2]) + ymd[3]

\* The year holding ordinal n, and n's 0-based day of that year.
YearOf(n) ==
    LET n0   == n - 1
        n400 == n0 \div 146097
        r400 == n0 % 146097
        n100 == r400 \div 36524
        r100 == r400 % 36524
        n4   == r100 \div 1461
        r4   == r100 % 1461
        n1   == r4 \div 365
        y    == n400 * 400 + 1 + n100 * 100 + n4 * 4 + n1
    IN  IF n1 = 4 \/ n100 = 4 THEN y - 1 ELSE y

RECURSIVE MonthOf(_, _, _)
MonthOf(y, m, dayOfYear) ==
    IF dayOfYear <= DaysBeforeMonth(y, m) + DaysInMonth(y, m) THEN m
    ELSE MonthOf(y, m + 1, dayOfYear)

\* The (year, month, day) of ordinal n
Ord2Ymd(n) ==
    LET y  == YearOf(n)
        dy == n - DaysBeforeYear(y)
        m  == MonthOf(y, 1, dy)
    IN  << y, m, dy - DaysBeforeMonth(y, m) >>

\* datetime.strftime("%Y-%m-%d")
Strftime(dt) == Ord2Ymd(dt.ord)

\* datetime.strptime(ymd + " 00:00:00", ...)
StrptimeMidnight(ymd) == [ord |-> Ymd2Ord(ymd), sec |-> 0]

\* datetime.strptime(ymd + " 23:59:59", ...)
StrptimeEndOfDay(ymd) == [ord |-> Ymd2Ord(ymd), sec |-> 86399]

\* dt - timedelta(days=n)
MinusDays(dt, n) == [ord |-> dt.ord - n, sec |-> dt.sec]

\* (a - b).days: the days field of the normalised timedelta
DiffDays(a, b) == (a.ord - b.ord) - (IF a.sec < b.sec THEN 1 ELSE 0)

\* date.weekday(): Monday is 0
Weekday(n) == (n + 6) % 7

IsoWeek1Monday(y) ==
    LET firstday     == Ymd2Ord(<< y, 1, 1 >>)
        firstweekday == (firstday + 6) % 7
        monday       == firstday - firstweekday
    IN  IF firstweekday > 3 THEN monday + 7 ELSE monday

\* date.isocalendar().week
IsoWeek(n) ==
    LET y    == YearOf(n)
        week == (n - IsoWeek1Monday(y)) \div 7
    IN  IF n < IsoWeek1Monday(y)
        THEN ((n - IsoWeek1Monday(y - 1)) \div 7) + 1
        ELSE IF week >= 52 /\ n >= IsoWeek1Monday(y + 1) THEN 1
        ELSE week + 1


-----------------------------------------------------------------------------
(* Inputs of historical_data.                                              *)

BaseYmd == << 2024, 1, 1 >>
BaseOrd == Ymd2Ord(BaseYmd)

\* to_date arguments, as day offsets from BaseYmd: before from_date, inside
\* one chunk, at the threshold, and two- and three-chunk spans.
ToOffsets == {-1, 1, 60, 61, 105, 121, 122}

FromDates == {Ord2Ymd(BaseOrd + i) : i \in 0..MaxFromShift} \cup {Absent}
ToDates == {Ord2Ymd(BaseOrd + i) : i \in ToOffsets} \cup {Absent}
Tokens == {<< 123 >>, Absent}
Intervals == {"day", None}

\* get_date_now(timezone): the wall-clock instants a call may observe
get_date_now == {[ord |-> BaseOrd + 110, sec |-> 34200]}

-----------------------------------------------------------------------------
(* The venue (kite.historical_data), an external service.                  *)

Exceptions ==
    {"DataException", "NetworkException", "GeneralException",
     "TokenException", "InputException"}

DtLe(a, b) == a.ord < b.ord \/ (a.ord = b.ord /\ a.sec <= b.sec)

IsBarDay(n) == (n - BaseOrd) % BarEvery = 0

\* The venue's bars dated within [fd, td], oldest first, at revision rev.
RECURSIVE BarsFrom(_, _, _, _)
BarsFrom(n, fd, td, rev) ==
    IF n > td.ord THEN << >>
    ELSE LET bar == [date |-> [ord |-> n, sec |-> 0], close |-> 100 + rev]
         IN  (IF IsBarDay(n) /\ DtLe(fd, bar.date) /\ DtLe(bar.date, td)
              THEN << bar >> ELSE << >>)
             \o BarsFrom(n + 1, fd, td, rev)

VenueRows(fd, td, rev) == BarsFrom(fd.ord, fd, td, rev)

\* What one invocation of kite.historical_data may do.
VenueOutcomes ==
    {[kind |-> "rows", rev |-> r, exc |-> None] : r \in 0..MaxRev}
    \cup {[kind |-> "empty", rev |-> 0, exc |-> None]}
    \cup {[kind |-> "raise", rev |-> 0, exc |-> e] : e \in Exceptions}

-----------------------------------------------------------------------------
(* Time.  The store holds the timestamp of the last venue call; the        *)
(* program only ever uses time.time() minus that timestamp, so the state   *)
(* keeps this difference (the timestamp's age, in ticks), saturated at     *)
(* AgeCap.  MinInterval is the 1/3 second of step2, in ticks.               *)

MinInterval == Resolution
AgeCap == MinInterval + AgeSlack
Saturate(a) == IF a > AgeCap THEN AgeCap ELSE a

\* Milliseconds in ticks (a tick is 1/(3 * Resolution) second).
MsToTicks(ms) == (ms * 3 * Resolution) \div 1000

\* Whether step2 is between its timestamp read and its first venue call.
Timing(p, n) == p = "rate_sleep" \/ (p = "venue_call" /\ n = 0)

\* Waits that also stamp the store with the current time.
AdvanceAndStamp(t) ==
    /\ rate_limit' = << 0 >>
    /\ since_read' = IF Timing(pc', attempt_number')
                     THEN Saturate(since_read + t) ELSE 0

\* t ticks pass.
Advance(t) ==
    /\ rate_limit' = IF rate_limit = Absent THEN Absent
                     ELSE << Saturate(rate_limit[1] + t) >>
    /\ since_read' = IF Timing(pc', attempt_number')
                     THEN Saturate(since_read + t) ELSE 0

-----------------------------------------------------------------------------
(* Data frames: a frame is the sequence of its rows; pd.DataFrame() with   *)
(* no rows and no columns is the empty sequence.                           *)

\* step2's column renaming and the two attached columns
RenameColumns(rows, token, interval) ==
    [i \in 1..Len(rows) |->
        [record_datetime  |-> rows[i].date,
         close_price      |-> rows[i].close,
         instrument_token |-> token,
         interval         |-> interval]]

\* pd.concat over the collected frames
RECURSIVE Concat(_)
Concat(dfs) == IF dfs = << >> THEN << >> ELSE Head(dfs) \o Concat(Tail(dfs))

\* A frame from which no row is dropped.
KeepDuplicates(rows) == rows

\* DataFrame.drop_duplicates(): the first of equal rows is kept
RECURSIVE DropDuplicates(_)
DropDuplicates(rows) ==
    IF rows = << >> THEN << >>
    ELSE LET front == DropDuplicates(SubSeq(rows, 1, Len(rows) - 1))
             last  == rows[Len(rows)]
         IN  IF \E i \in 1..Len(front) : front[i] = last
             THEN front ELSE Append(front, last)

\* The calendar columns derived from record_datetime
DeriveCalendar(rows) ==
    [i \in 1..Len(rows) |->
        LET dt  == rows[i].record_datetime
            ymd == Ord2Ymd(dt.ord)
        IN  [record_datetime     |-> dt,
             close_price         |-> rows[i].close_price,
             instrument_token    |-> rows[i].instrument_token,
             interval            |-> rows[i].interval,
             record_date         |-> ymd,
             record_time         |-> dt.sec,
             record_day          |-> ymd[3],
             record_month        |-> ymd[2],
             record_year         |-> ymd[1],
             record_weekday      |-> Weekday(dt.ord),
             record_week_of_year |-> IsoWeek(dt.ord)]]

NoOutcome == [kind |-> "none", df |-> << >>, exc |-> None]
Returned(df) == [kind |-> "returned", df |-> df, exc |-> None]
Raised(e) == [kind |-> "raised", df |-> << >>, exc |-> e]

\* A tail of step1 that returns whatever was collected, nothing included.
FinalizeOrEmpty(dfs) == Returned(DeriveCalendar(DropDuplicates(Concat(dfs))))

\* The tail of _get_historical_step1: pd.concat raises on an empty list,
\* and a frame without columns has no "record_datetime" to index.
Finalize(dfs) ==
    IF dfs = << >> THEN Raised("ValueError")
    ELSE IF Concat(dfs) = << >> THEN Raised("KeyError")
    ELSE Returned(DeriveCalendar(DropDuplicates(Concat(dfs))))

-----------------------------------------------------------------------------
(* Connect._get_historical_step1: the chunk walk.                          *)

threshold_limit == KITE_HISTORICAL_DATA_REQUEST_INTERVAL_LIMIT

\* A walk that still fetches a range one day over the threshold in one call.
NeedsChunksLate(fd, td) == DiffDays(td, fd) > threshold_limit + 1

\* Whether historical_data's range is fetched in chunks.
NeedsChunks(fd, td) == DiffDays(td, fd) > threshold_limit

\* Mutant: the slice carved off is one day short of the threshold.
ChunkLowerBoundShort(fd, td) ==
    IF DiffDays(td, fd) > threshold_limit
    THEN StrptimeMidnight(Strftime(MinusDays(td, threshold_limit - 1)))
    ELSE StrptimeMidnight(Strftime(MinusDays(td, DiffDays(td, fd))))

\* The lower bound of the next chunk of the walk.
ChunkLowerBound(fd, td) ==
    IF DiffDays(td, fd) > threshold_limit
    THEN StrptimeMidnight(Strftime(MinusDays(td, threshold_limit)))
    ELSE StrptimeMidnight(Strftime(MinusDays(td, DiffDays(td, fd))))

\* A walk that takes every chunk after the first for its last.
IsLastChunkAlways(fd, td) == TRUE

\* Whether the next chunk is the walk's last.
IsLastChunk(fd, td) == ~(DiffDays(td, fd) > threshold_limit)

\* Mutant: the walk resumes on the day before the chunk's lower bound.
NextToDateDayBefore(lower) == StrptimeEndOfDay(Strftime(MinusDays(lower, 1)))

\* The walk's to_date after the chunk that began at lower.
NextToDate(lower) == StrptimeEndOfDay(Strftime(lower))

-----------------------------------------------------------------------------
(* Connect._historical_data: the retried venue call.                       *)

\* Mutant: every exception is retried.
RetryOnAnyException(exception) == TRUE

retry_if_exception(exception) ==
    exception \in {"DataException", "NetworkException", "GeneralException"}

\* Mutant: the ceiling is compared with > instead of >=.
ShouldStopLate(n) == n > stop_max_attempt_number

\* retrying's stop_after_attempt
ShouldStop(n) == n >= stop_max_attempt_number

\* retrying's fixed_sleep (milliseconds)
WaitFor(n) == wait_fixed

\* Mutant: the walk swallows the error and returns what it has.
PropagateAsPartial(exception, dfs) == Finalize(dfs)

\* An exception that leaves the retry decorator: no frame between the
\* venue call and historical_data's caller handles it, so the frames
\* collected so far (dfs) are dropped with the stack.
Propagate(exception, dfs) == Raised(exception)


-----------------------------------------------------------------------------
(* Connect._get_historical_step2: the rate limiter around the venue call.  *)

\* A step2 that never waits.
NeverSleeps(elapsed) == FALSE

\* Whether step2 sleeps before calling the venue.
NeedsSleep(elapsed) == elapsed # Absent /\ elapsed[1] < MinInterval

\* Mutant: step2 sleeps for the elapsed time instead of the remainder.
SleepForElapsed(elapsed) == elapsed[1]

\* The duration step2 hands to time.sleep.
SleepFor(elapsed) == MinInterval - elapsed[1]

-----------------------------------------------------------------------------
(* The fetcher's actions.                                                  *)

NoRequest ==
    [instrument_token |-> Absent, interval |-> None,
     from_date |-> Absent, to_date |-> Absent, now |-> NoDate]

InitFetcherVars ==
    /\ pc = "idle"
    /\ request = NoRequest
    /\ from_date = NoDate
    /\ to_date = NoDate
    /\ fd_new = NoDate
    /\ is_break = FALSE
    /\ chunked = FALSE
    /\ historical_dfs = << >>
    /\ attempt_number = 0
    /\ last_wait = 0
    /\ elapsed_time = Absent
    /\ slept = 0
    /\ since_read = 0
    /\ response = << >>
    /\ venue_calls = << >>
    /\ outcome = NoOutcome
    /\ rate_limit = Absent

\* historical_data up to the first chunk's step2: the date defaults and
\* parsing, the two assertions, and step1's choice of the first window.
historical_data(token, interval, from_in, to_in, now) ==
    /\ pc = "idle"
    /\ request' = [instrument_token |-> token, interval |-> interval,
                   from_date |-> from_in, to_date |-> to_in, now |-> now]
    /\ LET fd == IF from_in = Absent
                 THEN StrptimeMidnight(Strftime(MinusDays(now, 5)))
                 ELSE StrptimeMidnight(from_in)
           td == IF to_in = Absent
                 THEN StrptimeEndOfDay(Strftime(MinusDays(now, 1)))
                 ELSE StrptimeEndOfDay(to_in)
       IN  IF token = Absent \/ interval = None
           THEN /\ pc' = "done"
                /\ outcome' = Raised("AssertionError")
                /\ UNCHANGED << from_date, to_date, fd_new, is_break, chunked >>
           ELSE /\ pc' = "rate_read"
                /\ outcome' = NoOutcome
                /\ from_date' = fd
                /\ to_date' = td
                /\ chunked' = NeedsChunks(fd, td)
                /\ fd_new' = IF NeedsChunks(fd, td) THEN ChunkLowerBound(fd, td) ELSE fd
                /\ is_break' = (NeedsChunks(fd, td) /\ IsLastChunk(fd, td))
    /\ historical_dfs' = << >>
    /\ venue_calls' = << >>
    /\ UNCHANGED << attempt_number, last_wait, elapsed_time, slept, since_read,
                    response, rate_limit >>

\* step2 reads the stored timestamp and decides whether to sleep.
RateLimitRead ==
    /\ pc = "rate_read"
    /\ elapsed_time' = rate_limit
    /\ pc' = IF NeedsSleep(rate_limit) THEN "rate_sleep" ELSE "venue_call"
    /\ attempt_number' = 0
    /\ last_wait' = 0
    /\ slept' = 0
    /\ since_read' = 0
    /\ UNCHANGED << request, from_date, to_date, fd_new, is_break, chunked,
                    historical_dfs, response, venue_calls, outcome, rate_limit >>

\* step2's time.sleep(1 / 3 - elapsed_time)
RateLimitSleep ==
    /\ pc = "rate_sleep"
    /\ slept' = SleepFor(elapsed_time)
    /\ pc' = "venue_call"
    /\ UNCHANGED << request, from_date, to_date, fd_new, is_break, chunked,
                    historical_dfs, attempt_number, last_wait, elapsed_time,
                    response, venue_calls, outcome >>
    /\ Advance(SleepFor(elapsed_time))

\* One invocation of kite.historical_data under the retry decorator: a
\* result goes back to step2; an exception is retried after a wait, or
\* propagates out of historical_data.  The last entry of venue_calls holds
\* what the latest invocation for that chunk did.
VenueAttempt(res) ==
    /\ pc = "venue_call"
    /\ attempt_number' = attempt_number + 1
    /\ LET rows == IF res.kind = "rows"
                   THEN VenueRows(fd_new, to_date, res.rev) ELSE << >>
           log  == IF attempt_number = 0
                   THEN Append(venue_calls,
                               [from_date |-> fd_new, to_date |-> to_date,
                                rows |-> << >>, result |-> "pending"])
                   ELSE venue_calls
           n    == Len(log)
       IN  IF res.kind # "raise"
           THEN /\ pc' = "rate_record"
                /\ response' = rows
                /\ venue_calls' = [log EXCEPT ![n].rows = rows,
                                              ![n].result = "returned"]
                /\ UNCHANGED outcome
           ELSE IF retry_if_exception(res.exc) /\ ~ShouldStop(attempt_number + 1)
           THEN /\ pc' = "retry_wait"
                /\ venue_calls' = [log EXCEPT ![n].result = res.exc]
                /\ UNCHANGED << response, outcome >>
           ELSE /\ pc' = "done"
                /\ outcome' = Propagate(res.exc, historical_dfs)
                /\ venue_calls' = [log EXCEPT ![n].result = res.exc]
                /\ UNCHANGED response
    /\ since_read' = 0
    /\ UNCHANGED << request, from_date, to_date, fd_new, is_break, chunked,
                    historical_dfs, last_wait, elapsed_time, slept, rate_limit >>

\* retrying's sleep between two attempts
RetryWait ==
    /\ pc = "retry_wait"
    /\ last_wait' = WaitFor(attempt_number)
    /\ pc' = "venue_call"
    /\ UNCHANGED << request, from_date, to_date, fd_new, is_break, chunked,
                    historical_dfs, attempt_number, elapsed_time, slept,
                    response, venue_calls, outcome >>
    /\ Advance(MsToTicks(WaitFor(attempt_number)))

\* A walk that goes on past an empty chunk, until the residual slice.
WalkEndsOnlyOnBreak(has_data) == ~chunked \/ is_break

\* step1 after a chunk: `if is_break: break`, `if not has_data: break`; the
\* single-call path has no loop.
WalkEnds(has_data) == ~chunked \/ is_break \/ ~has_data

\* The rest of step2 after the venue answered (the timestamp write, the
\* empty check, the renaming) and step1's handling of the chunk: collect
\* it, then either walk on to the next window or build the result.
ChunkReturn ==
    /\ pc = "rate_record"
    /\ rate_limit' = << 0 >>
    /\ LET has_data      == Len(response) # 0
           historical_df == IF has_data
                            THEN RenameColumns(response, request.instrument_token[1],
                                               request.interval)
                            ELSE << >>
           dfs           == IF chunked /\ ~has_data THEN historical_dfs
                            ELSE Append(historical_dfs, historical_df)
           finished      == WalkEnds(has_data)
           td            == NextToDate(fd_new)
       IN  /\ historical_dfs' = dfs
           /\ IF finished
              THEN /\ pc' = "done"
                   /\ outcome' = Finalize(dfs)
                   /\ UNCHANGED << to_date, fd_new, is_break >>
              ELSE /\ pc' = "rate_read"
                   /\ to_date' = td
                   /\ fd_new' = ChunkLowerBound(from_date, td)
                   /\ is_break' = IsLastChunk(from_date, td)
                   /\ UNCHANGED outcome
    /\ response' = << >>
    /\ UNCHANGED << request, from_date, chunked, attempt_number, last_wait,
                    elapsed_time, slept, since_read, venue_calls >>

\* The caller takes the result; the fetcher is ready for the next call.
Return ==
    /\ pc = "done"
    /\ pc' = "idle"
    /\ request' = NoRequest
    /\ from_date' = NoDate
    /\ to_date' = NoDate
    /\ fd_new' = NoDate
    /\ is_break' = FALSE
    /\ chunked' = FALSE
    /\ historical_dfs' = << >>
    /\ attempt_number' = 0
    /\ last_wait' = 0
    /\ elapsed_time' = Absent
    /\ slept' = 0
    /\ since_read' = 0
    /\ response' = << >>
    /\ venue_calls' = << >>
    /\ outcome' = NoOutcome
    /\ UNCHANGED rate_limit

\* One tick of time passes.
Tick ==
    /\ UNCHANGED << pc, request, from_date, to_date, fd_new, is_break, chunked,
                    historical_dfs, attempt_number, last_wait, elapsed_time,
                    slept, response, venue_calls, outcome >>
    /\ Advance(1)

-----------------------------------------------------------------------------
(* Ticks and their serialisation.                                          *)

\* A tick as the venue delivers it.
Tick1 == [instrument_token |-> 256265, last_price |-> 100,
          exchange_timestamp |-> [ord |-> BaseOrd, sec |-> 33300]]
Tick2 == [instrument_token |-> 408065, last_price |-> 200,
          exchange_timestamp |-> [ord |-> BaseOrd, sec |-> 33301]]
Tick3 == [instrument_token |-> 256265, last_price |-> 101,
          exchange_timestamp |-> [ord |-> BaseOrd, sec |-> 33302]]

\* The batches of the model: one tick, two instruments, one instrument twice,
\* one revised tick.
Batches == {<< Tick1 >>, << Tick1, Tick2 >>, << Tick3, Tick1 >>, << Tick3 >>}

\* The batches the venue client hands to on_ticks.
StreamedBatches == {<< Tick1 >>, << Tick1, Tick2 >>}

-----------------------------------------------------------------------------
(* Ticker: the stream coordinator.                                         *)

\* self.subscriptions
DefaultSubscriptions == << 256265, 260105, 264969 >>

\* Instrument ids other processes append to kt:data:subscriptions.
DynamicIds == {256265, 408065}

\* The store keeps list entries as text.
PyStr(n) == CASE n = 256265 -> "256265" [] n = 408065 -> "408065"
PyInt(text) == CASE text = "256265" -> 256265 [] text = "408065" -> 408065

TaskName == "zerodha_api.amqp.main.cache_on_redis"
MODE_FULL == "full"
LIVE_TTL == 3

\* One call made by a callback: the operation, and whichever of a token
\* list, a flag value and a tick batch it carries.
Ev(op, ids, text, batch) == [op |-> op, ids |-> ids, text |-> text, batch |-> batch]

\* Ticker._get_instruments
GetInstruments(stored) == [i \in 1..Len(stored) |-> PyInt(stored[i])]

\* A merge that lets the dynamic list replace the default one.
MergeDynamicOnly(default, dynamic) == IF dynamic = << >> THEN default ELSE dynamic

\* subscriptions = self.subscriptions + self._get_instruments()
MergeSubscriptions(default, dynamic) == default \o dynamic

\* A stop test by truthiness: any stored value requests the stop.
StopRequestedTruthy(value) == value # None

\* self.redis_client.get(KITE_TICKER_STOP) == "1"
StopRequested(value) == value = "1"

\* self.redis_client.get(KITE_SUBSCRIPTIONS_UPDATE) == "1"
UpdateRequested(value) == value = "1"

\* An on_ticks that clears the subscriptions-changed flag before it
\* resubscribes.
OnTicksNextClearFirst(at, value) ==
    CASE at = "invoked" -> "send_task"
      [] at = "send_task" -> "get_stop"
      [] at = "get_stop" -> IF value = "1" THEN "close" ELSE "setex"
      [] at = "close" -> "idle"
      [] at = "setex" -> "get_update"
      [] at = "get_update" -> IF value = "1" THEN "clear_update" ELSE "idle"
      [] at = "clear_update" -> "lrange"
      [] at = "lrange" -> "subscribe"
      [] at = "subscribe" -> "set_mode"
      [] at = "set_mode" -> "idle"

\* An on_ticks that refreshes the liveness key before it tests the stop flag.
OnTicksNextLiveFirst(at, value) ==
    CASE at = "invoked" -> "send_task"
      [] at = "send_task" -> "setex"
      [] at = "setex" -> "get_stop"
      [] at = "get_stop" -> IF StopRequested(value) THEN "close" ELSE "get_update"
      [] at = "close" -> "idle"
      [] at = "get_update" -> IF UpdateRequested(value) THEN "lrange" ELSE "idle"
      [] at = "lrange" -> "subscribe"
      [] at = "subscribe" -> "set_mode"
      [] at = "set_mode" -> "clear_update"
      [] at = "clear_update" -> "idle"

\* An on_ticks that tests the stop flag before it forwards the batch.
OnTicksNextStopFirst(at, value) ==
    CASE at = "invoked" -> "get_stop"
      [] at = "get_stop" -> IF StopRequested(value) THEN "close" ELSE "send_task"
      [] at = "send_task" -> "setex"
      [] at = "close" -> "idle"
      [] at = "setex" -> "get_update"
      [] at = "get_update" -> IF UpdateRequested(value) THEN "lrange" ELSE "idle"
      [] at = "lrange" -> "subscribe"
      [] at = "subscribe" -> "set_mode"
      [] at = "set_mode" -> "clear_update"
      [] at = "clear_update" -> "idle"

\* The statement on_ticks runs after the one at `at`, which read `value`.
OnTicksNext(at, value) ==
    CASE at = "invoked" -> "send_task"
      [] at = "send_task" -> "get_stop"
      [] at = "get_stop" -> IF StopRequested(value) THEN "close" ELSE "setex"
      [] at = "close" -> "idle"
      [] at = "setex" -> "get_update"
      [] at = "get_update" -> IF UpdateRequested(value) THEN "lrange" ELSE "idle"
      [] at = "lrange" -> "subscribe"
      [] at = "subscribe" -> "set_mode"
      [] at = "set_mode" -> "clear_update"
      [] at = "clear_update" -> "idle"

\* The statement on_connect runs after the one at `at`.
OnConnectNext(at) ==
    CASE at = "invoked" -> "lrange"
      [] at = "lrange" -> "subscribe"
      [] at = "subscribe" -> "set_mode"
      [] at = "set_mode" -> "idle"

NextStatement(name, at, value) ==
    IF name = "on_ticks" THEN OnTicksNext(at, value) ELSE OnConnectNext(at)

InitTickerVars ==
    /\ ws_state = "idle"
    /\ handler = "none"
    /\ t_pc = "idle"
    /\ ticks = << >>
    /\ merged = << >>
    /\ trace = << >>
    /\ stop_held = FALSE
    /\ kt_stop = None
    /\ kt_subscriptions_update = None
    /\ kt_is_live = 0
    /\ kt_order_update = None
    /\ kt_subscriptions = << >>
    /\ task_queue = << >>
    /\ pending_ids = {}
    /\ subscribed_ids = {}

\* Ticker.run: the callbacks are registered and the session is opened.
Run ==
    /\ ws_state = "idle"
    /\ ws_state' = "connecting"
    /\ UNCHANGED << pending_ids, subscribed_ids, handler, t_pc, ticks, merged, trace, stop_held, kt_stop,
                    kt_subscriptions_update, kt_is_live, kt_order_update,
                    kt_subscriptions, task_queue >>

\* A logging callback that also stops the session (on_close with the
\* ws.stop() of its commented-out line).
ObserveAndStop(name) ==
    /\ t_pc = "idle"
    /\ handler' = name
    /\ trace' = << Ev("close", << >>, None, << >>) >>
    /\ ws_state' = "closed"
    /\ UNCHANGED << pending_ids, subscribed_ids, t_pc, ticks, merged, stop_held, kt_stop,
                    kt_subscriptions_update, kt_is_live, kt_order_update,
                    kt_subscriptions, task_queue >>

\* A callback that only logs.
Observe(name) ==
    /\ t_pc = "idle"
    /\ handler' = name
    /\ trace' = << >>
    /\ UNCHANGED << ws_state, pending_ids, subscribed_ids, t_pc, ticks, merged, stop_held, kt_stop,
                    kt_subscriptions_update, kt_is_live, kt_order_update,
                    kt_subscriptions, task_queue >>

on_open == ws_state \in {"connecting", "streaming"} /\ Observe("on_open")

on_reconnect == ws_state = "reconnecting" /\ Observe("on_reconnect")

\* on_noreconnect only logs.  Ticker.run does not register it, so the venue
\* client never dispatches it; it runs when called directly, here once the
\* client is retrying.
on_noreconnect == ws_state = "reconnecting" /\ Observe("on_noreconnect")

on_close == ws_state \in {"reconnecting", "closed"} /\ Observe("on_close")

on_error == ws_state = "reconnecting" /\ Observe("on_error")

on_order_update ==
    /\ ws_state = "streaming"
    /\ t_pc = "idle"
    /\ handler' = "on_order_update"
    /\ kt_order_update' = "1"
    /\ trace' = << Ev("set_order_update", << >>, "1", << >>) >>
    /\ UNCHANGED << ws_state, pending_ids, subscribed_ids, t_pc, ticks, merged, stop_held, kt_stop,
                    kt_subscriptions_update, kt_is_live, kt_subscriptions,
                    task_queue >>

\* on_connect is invoked: the session was opened, or re-opened.
on_connect ==
    /\ ws_state \in {"connecting", "reconnecting"}
    /\ t_pc = "idle"
    /\ handler' = "on_connect"
    /\ t_pc' = NextStatement("on_connect", "invoked", None)
    /\ trace' = << >>
    /\ merged' = << >>
    /\ UNCHANGED << ws_state, pending_ids, subscribed_ids, ticks, stop_held, kt_stop,
                    kt_subscriptions_update, kt_is_live, kt_order_update,
                    kt_subscriptions, task_queue >>

\* on_ticks is invoked with a batch.
on_ticks(batch) ==
    /\ ws_state = "streaming"
    /\ t_pc = "idle"
    /\ Len(task_queue) < MaxQueue
    /\ handler' = "on_ticks"
    /\ t_pc' = NextStatement("on_ticks", "invoked", None)
    /\ ticks' = batch
    /\ trace' = << >>
    /\ merged' = << >>
    /\ stop_held' = (kt_stop = "1")
    /\ UNCHANGED << ws_state, pending_ids, subscribed_ids, kt_stop, kt_subscriptions_update, kt_is_live,
                    kt_order_update, kt_subscriptions, task_queue >>

\* on_ticks: self.zamqp.send_task(..., args=[ticks])
SendTask ==
    /\ t_pc = "send_task"
    /\ task_queue' = Append(task_queue, [name |-> TaskName, args |-> ticks])
    /\ trace' = Append(trace, Ev("send_task", << >>, TaskName, ticks))
    /\ t_pc' = NextStatement(handler, t_pc, None)
    /\ UNCHANGED << ws_state, pending_ids, subscribed_ids, handler, ticks, merged, stop_held, kt_stop,
                    kt_subscriptions_update, kt_is_live, kt_order_update,
                    kt_subscriptions >>

\* on_ticks: if self.redis_client.get(KITE_TICKER_STOP) == "1"
GetStop ==
    /\ t_pc = "get_stop"
    /\ trace' = Append(trace, Ev("get_stop", << >>, kt_stop, << >>))
    /\ t_pc' = NextStatement(handler, t_pc, kt_stop)
    /\ UNCHANGED << ws_state, pending_ids, subscribed_ids, handler, ticks, merged, stop_held, kt_stop,
                    kt_subscriptions_update, kt_is_live, kt_order_update,
                    kt_subscriptions, task_queue >>

\* on_ticks: self.kite.close()
Close ==
    /\ t_pc = "close"
    /\ ws_state' = "closed"
    /\ trace' = Append(trace, Ev("close", << >>, None, << >>))
    /\ t_pc' = NextStatement(handler, t_pc, None)
    /\ UNCHANGED << pending_ids, subscribed_ids, handler, ticks, merged, stop_held, kt_stop,
                    kt_subscriptions_update, kt_is_live, kt_order_update,
                    kt_subscriptions, task_queue >>

\* on_ticks: self.redis_client.setex(KITE_TICKER_IS_LIVE, 3, 1)
SetLive ==
    /\ t_pc = "setex"
    /\ kt_is_live' = LIVE_TTL
    /\ trace' = Append(trace, Ev("setex_is_live", << >>, "1", << >>))
    /\ t_pc' = NextStatement(handler, t_pc, None)
    /\ UNCHANGED << ws_state, pending_ids, subscribed_ids, handler, ticks, merged, stop_held, kt_stop,
                    kt_subscriptions_update, kt_order_update,
                    kt_subscriptions, task_queue >>

\* on_ticks: if self.redis_client.get(KITE_SUBSCRIPTIONS_UPDATE) == "1"
GetUpdate ==
    /\ t_pc = "get_update"
    /\ trace' = Append(trace, Ev("get_update", << >>, kt_subscriptions_update, << >>))
    /\ t_pc' = NextStatement(handler, t_pc, kt_subscriptions_update)
    /\ UNCHANGED << ws_state, pending_ids, subscribed_ids, handler, ticks, merged, stop_held, kt_stop,
                    kt_subscriptions_update, kt_is_live, kt_order_update,
                    kt_subscriptions, task_queue >>

\* on_connect, on_ticks: subscriptions = self.subscriptions + self._get_instruments()
ReadInstruments ==
    /\ t_pc = "lrange"
    /\ merged' = MergeSubscriptions(DefaultSubscriptions,
                                    GetInstruments(kt_subscriptions))
    /\ trace' = Append(trace, Ev("lrange", GetInstruments(kt_subscriptions),
                                 None, << >>))
    /\ t_pc' = NextStatement(handler, t_pc, None)
    /\ UNCHANGED << ws_state, pending_ids, subscribed_ids, handler, ticks, stop_held, kt_stop,
                    kt_subscriptions_update, kt_is_live, kt_order_update,
                    kt_subscriptions, task_queue >>

\* on_connect, on_ticks: ws.subscribe(subscriptions)
Subscribe ==
    /\ t_pc = "subscribe"
    /\ trace' = Append(trace, Ev("subscribe", merged, None, << >>))
    /\ t_pc' = NextStatement(handler, t_pc, None)
    /\ pending_ids' = pending_ids \ {merged[i] : i \in 1..Len(merged)}
    /\ subscribed_ids' = subscribed_ids \cup
                             ({merged[i] : i \in 1..Len(merged)} \cap DynamicIds)
    /\ UNCHANGED << ws_state, handler, ticks, merged, stop_held, kt_stop,
                    kt_subscriptions_update, kt_is_live, kt_order_update,
                    kt_subscriptions, task_queue >>

\* on_connect, on_ticks: ws.set_mode(ws.MODE_FULL, subscriptions); with it
\* on_connect is done and the session streams.
SetMode ==
    /\ t_pc = "set_mode"
    /\ trace' = Append(trace, Ev("set_mode", merged, MODE_FULL, << >>))
    /\ t_pc' = NextStatement(handler, t_pc, None)
    /\ ws_state' = IF handler = "on_connect" THEN "streaming" ELSE ws_state
    /\ UNCHANGED << pending_ids, subscribed_ids, handler, ticks, merged, stop_held, kt_stop,
                    kt_subscriptions_update, kt_is_live, kt_order_update,
                    kt_subscriptions, task_queue >>

\* on_ticks: self.redis_client.set(KITE_SUBSCRIPTIONS_UPDATE, 0)
ClearUpdate ==
    /\ t_pc = "clear_update"
    /\ kt_subscriptions_update' = "0"
    /\ trace' = Append(trace, Ev("set_update", << >>, "0", << >>))
    /\ t_pc' = NextStatement(handler, t_pc, None)
    /\ UNCHANGED << ws_state, pending_ids, subscribed_ids, handler, ticks, merged, stop_held, kt_stop,
                    kt_is_live, kt_order_update, kt_subscriptions, task_queue >>

\* Another process writes the stop key.
WriteStop(value) ==
    /\ kt_stop' = value
    /\ stop_held' = (stop_held /\ value = "1")
    /\ UNCHANGED << ws_state, pending_ids, subscribed_ids, handler, t_pc, ticks, merged, trace,
                    kt_subscriptions_update, kt_is_live, kt_order_update,
                    kt_subscriptions, task_queue >>

\* Another process requests a re-merge.
WriteUpdate ==
    /\ kt_subscriptions_update' = "1"
    /\ pending_ids' = pending_ids \cup
                          ({PyInt(kt_subscriptions[i]) : i \in 1..Len(kt_subscriptions)}
                               \ subscribed_ids)
    /\ UNCHANGED << subscribed_ids, ws_state, handler, t_pc, ticks, merged, trace, stop_held,
                    kt_stop, kt_is_live, kt_order_update, kt_subscriptions,
                    task_queue >>

\* Ticker._set_instruments([id]): an id is appended to the dynamic list.
_set_instruments(id) ==
    /\ Len(kt_subscriptions) < MaxDynamic
    /\ kt_subscriptions' = Append(kt_subscriptions, PyStr(id))
    /\ UNCHANGED << ws_state, pending_ids, subscribed_ids, handler, t_pc, ticks, merged, trace, stop_held,
                    kt_stop, kt_subscriptions_update, kt_is_live,
                    kt_order_update, task_queue >>

\* The transport drops; the venue client starts reconnecting.
Disconnect ==
    /\ ws_state = "streaming"
    /\ t_pc = "idle"
    /\ ws_state' = "reconnecting"
    /\ UNCHANGED << pending_ids, subscribed_ids, handler, t_pc, ticks, merged, trace, stop_held, kt_stop,
                    kt_subscriptions_update, kt_is_live, kt_order_update,
                    kt_subscriptions, task_queue >>

\* A queue worker takes the oldest task.
TakeTask ==
    /\ task_queue # << >>
    /\ task_queue' = Tail(task_queue)
    /\ UNCHANGED << ws_state, pending_ids, subscribed_ids, handler, t_pc, ticks, merged, trace, stop_held,
                    kt_stop, kt_subscriptions_update, kt_is_live,
                    kt_order_update, kt_subscriptions >>

\* One time unit passes: the liveness key moves toward expiry.
Expire ==
    /\ kt_is_live > 0
    /\ kt_is_live' = kt_is_live - 1
    /\ UNCHANGED << ws_state, pending_ids, subscribed_ids, handler, t_pc, ticks, merged, trace, stop_held,
                    kt_stop, kt_subscriptions_update, kt_order_update,
                    kt_subscriptions, task_queue >>

-----------------------------------------------------------------------------
(* cache_on_redis: the queue task that writes tick batches to the store.   *)

\* The queue's worker pool.
Workers == {"w1", "w2"}

InstrumentTokens == {Tick1.instrument_token, Tick2.instrument_token}

\* datetime.__str__: "YYYY-MM-DD HH:MM:SS"
DatetimeStr(dt) ==
    Ord2Ymd(dt.ord) \o << dt.sec \div 3600, (dt.sec \div 60) % 60, dt.sec % 60 >>

\* json.dumps(tick, default=...): the tick's fields as JSON text, a datetime
\* replaced by its string.
JsonDumps(tick) ==
    [json |-> "object",
     instrument_token |-> tick.instrument_token,
     last_price |-> tick.last_price,
     exchange_timestamp |-> DatetimeStr(tick.exchange_timestamp)]

\* json.dumps(ticks, default=...)
JsonDumpsList(batch) == [i \in 1..Len(batch) |-> JsonDumps(batch[i])]

\* The store keeps a number as its text.
Repr(number) == [text |-> number]

\* Store keys.
LtpKey(token) == [name |-> "kt:ltp", token |-> token]
ListKey(token) == [name |-> "kt", token |-> token]
KITE_SNAPSHOT_DATA == [name |-> "kt:data:snapshot_data", token |-> 0]
KITE_TICK_DATA == [name |-> "kt:data:tick_data", token |-> 0]

\* One store call.
StoreOp(op, key, value) == [op |-> op, key |-> key, value |-> value]

\* A task that writes the snapshot and the global log before the ticks.
CacheNextSnapshotFirst(at, i, n) ==
    CASE at = "invoked" -> "set_snapshot"
      [] at = "set_snapshot" -> "rpush_log"
      [] at = "rpush_log" -> IF n = 0 THEN "return" ELSE "set_ltp"
      [] at = "set_ltp" -> "rpush_tick"
      [] at = "rpush_tick" -> IF i < n THEN "set_ltp" ELSE "return"

\* The statement cache_on_redis runs after the one at `at`, reached for the
\* i-th of n ticks.
CacheNext(at, i, n) ==
    CASE at = "invoked" -> IF n = 0 THEN "set_snapshot" ELSE "set_ltp"
      [] at = "set_ltp" -> "rpush_tick"
      [] at = "rpush_tick" -> IF i < n THEN "set_ltp" ELSE "set_snapshot"
      [] at = "set_snapshot" -> "rpush_log"
      [] at = "rpush_log" -> "return"

IdleWorker == [status |-> "idle", ticks |-> << >>, i |-> 0, at |-> "return",
               log |-> << >>]

InitCacheVars ==
    /\ worker = [w \in Workers |-> IdleWorker]
    /\ deliveries = 0
    /\ kt_ltp = [token \in InstrumentTokens |-> << >>]
    /\ kt_ticks = [token \in InstrumentTokens |-> << >>]
    /\ kt_snapshot = << >>
    /\ kt_tick_data = << >>

\* The queue delivers a task to a free worker: cache_on_redis(ticks) starts.
cache_on_redis(w, batch) ==
    /\ worker[w].status # "running"
    /\ deliveries < MaxDeliveries
    /\ deliveries' = deliveries + 1
    /\ worker' = [worker EXCEPT ![w] =
                     [status |-> "running", ticks |-> batch, i |-> 1,
                      at |-> CacheNext("invoked", 0, Len(batch)),
                      log |-> << >>]]
    /\ UNCHANGED << kt_ltp, kt_ticks, kt_snapshot, kt_tick_data >>

\* The worker moves past the statement it is at, having made the call `op`.
Proceed(w, op, i) ==
    LET self == worker[w]
        to == CacheNext(self.at, self.i, Len(self.ticks))
    IN  worker' = [worker EXCEPT ![w] =
                      [self EXCEPT !.at = to, !.i = i,
                                   !.log = Append(self.log, op),
                                   !.status = IF to = "return" THEN "done"
                                              ELSE "running"]]

\* redis_client.set(f"kt:ltp:{instrument_token}", ltp)
SetLtp(w) ==
    LET self == worker[w]
        tick == self.ticks[self.i]
    IN  /\ self.status = "running" /\ self.at = "set_ltp"
        /\ kt_ltp' = [kt_ltp EXCEPT ![tick.instrument_token] =
                         << Repr(tick.last_price) >>]
        /\ Proceed(w, StoreOp("set", LtpKey(tick.instrument_token),
                              Repr(tick.last_price)), self.i)
        /\ UNCHANGED << deliveries, kt_ticks, kt_snapshot, kt_tick_data >>

\* redis_client.rpush(f"kt:{instrument_token}", json.dumps(tick, ...))
RpushTick(w) ==
    LET self == worker[w]
        tick == self.ticks[self.i]
    IN  /\ self.status = "running" /\ self.at = "rpush_tick"
        /\ kt_ticks' = [kt_ticks EXCEPT ![tick.instrument_token] =
                           Append(@, JsonDumps(tick))]
        /\ Proceed(w, StoreOp("rpush", ListKey(tick.instrument_token),
                              JsonDumps(tick)), self.i + 1)
        /\ UNCHANGED << deliveries, kt_ltp, kt_snapshot, kt_tick_data >>

\* redis_client.set(KITE_SNAPSHOT_DATA, tick_data)
SetSnapshot(w) ==
    LET self == worker[w]
        tick_data == JsonDumpsList(self.ticks)
    IN  /\ self.status = "running" /\ self.at = "set_snapshot"
        /\ kt_snapshot' = << tick_data >>
        /\ Proceed(w, StoreOp("set", KITE_SNAPSHOT_DATA, tick_data), self.i)
        /\ UNCHANGED << deliveries, kt_ltp, kt_ticks, kt_tick_data >>

\* redis_client.rpush(KITE_TICK_DATA, tick_data)
RpushTickData(w) ==
    LET self == worker[w]
        tick_data == JsonDumpsList(self.ticks)
    IN  /\ self.status = "running" /\ self.at = "rpush_log"
        /\ kt_tick_data' = Append(kt_tick_data, tick_data)
        /\ Proceed(w, StoreOp("rpush", KITE_TICK_DATA, tick_data), self.i)
        /\ UNCHANGED << deliveries, kt_ltp, kt_ticks, kt_snapshot >>

\* The store is unavailable: the call the worker is at raises, and the task
\* ends there.
StoreUnavailable(w) ==
    /\ worker[w].status = "running"
    /\ worker' = [worker EXCEPT ![w].status = "failed"]
    /\ UNCHANGED << deliveries, kt_ltp, kt_ticks, kt_snapshot, kt_tick_data >>

-----------------------------------------------------------------------------
(* Several processes in _get_historical_step2 at once, sharing the         *)
(* timestamp key.  Each runs step2 again and again (a walk's next chunk, or *)
(* its caller's next request); time is kept as ages, as above.             *)

\* The processes that call historical_data.
Callers == {"f1", "f2", "f3"}

InitLimiterVars ==
    /\ caller_pc = [p \in Callers |-> "rate_read"]
    /\ caller_sleep = [p \in Callers |-> 0]
    /\ recent_calls = {}

\* step2 reads the timestamp, computes its age and, if it is under 1/3
\* second, starts to sleep for the rest.
CallerRead(p) ==
    /\ caller_pc[p] = "rate_read"
    /\ caller_pc' = [caller_pc EXCEPT ![p] =
                        IF NeedsSleep(rate_limit) THEN "rate_sleep" ELSE "venue_call"]
    /\ caller_sleep' = [caller_sleep EXCEPT ![p] =
                           IF NeedsSleep(rate_limit) THEN SleepFor(rate_limit) ELSE 0]
    /\ UNCHANGED << rate_limit, recent_calls >>

\* time.sleep(1 / 3 - elapsed_time) is over.
CallerWake(p) ==
    /\ caller_pc[p] = "rate_sleep"
    /\ caller_sleep[p] = 0
    /\ caller_pc' = [caller_pc EXCEPT ![p] = "venue_call"]
    /\ UNCHANGED << rate_limit, caller_sleep, recent_calls >>

\* The venue call starts.
CallerCall(p) ==
    /\ caller_pc[p] = "venue_call"
    /\ Cardinality(recent_calls) < MaxRecent
    /\ recent_calls' = recent_calls \cup {[caller |-> p, age |-> 0, raised |-> FALSE]}
    /\ caller_pc' = [caller_pc EXCEPT ![p] = "in_call"]
    /\ UNCHANGED << rate_limit, caller_sleep >>

\* The venue call returns (rows, or none): step2 goes on to the write.
CallerReturn(p) ==
    /\ caller_pc[p] = "in_call"
    /\ caller_pc' = [caller_pc EXCEPT ![p] = "rate_record"]
    /\ UNCHANGED << rate_limit, caller_sleep, recent_calls >>

\* The venue call raises out of step2: the write is not reached, and the
\* process comes back with its next request.
CallerRaise(p) ==
    /\ caller_pc[p] = "in_call"
    /\ caller_pc' = [caller_pc EXCEPT ![p] = "rate_read"]
    /\ recent_calls' = {IF c.caller = p THEN [c EXCEPT !.raised = TRUE] ELSE c :
                            c \in recent_calls}
    /\ UNCHANGED << rate_limit, caller_sleep >>

\* self.redis_client.set(KITE_HISTORICAL_API_RATE_LIMIT, time.time()); the
\* process then comes back for its next chunk or request.
CallerRecord(p) ==
    /\ caller_pc[p] = "rate_record"
    /\ rate_limit' = << 0 >>
    /\ caller_pc' = [caller_pc EXCEPT ![p] = "rate_read"]
    /\ UNCHANGED << caller_sleep, recent_calls >>

StillRecent(call) == call.age < MinInterval

\* One tick of time passes for every process.
CallersTick ==
    /\ rate_limit' = IF rate_limit = Absent THEN Absent
                     ELSE << Saturate(rate_limit[1] + 1) >>
    /\ caller_sleep' = [p \in Callers |->
                           IF caller_sleep[p] > 0 THEN caller_sleep[p] - 1 ELSE 0]
    /\ recent_calls' = {c \in {[d EXCEPT !.age = @ + 1] : d \in recent_calls} :
                            StillRecent(c)}
    /\ UNCHANGED caller_pc

-----------------------------------------------------------------------------
(* Specifications: one per component.                                      *)

Init == InitFetcherVars /\ InitTickerVars /\ InitCacheVars /\ InitLimiterVars

InitFetcher == Init
NextFetcher ==
    \/ \E token \in Tokens, interval \in Intervals, from_in \in FromDates,
          to_in \in ToDates, now \in get_date_now :
          historical_data(token, interval, from_in, to_in, now) /\ UNCHANGED << tickerVars, cacheVars, limiterVars >>
    \/ RateLimitRead /\ UNCHANGED << tickerVars, cacheVars, limiterVars >>
    \/ RateLimitSleep /\ UNCHANGED << tickerVars, cacheVars, limiterVars >>
    \/ \E res \in VenueOutcomes : VenueAttempt(res) /\ UNCHANGED << tickerVars, cacheVars, limiterVars >>
    \/ RetryWait /\ UNCHANGED << tickerVars, cacheVars, limiterVars >>
    \/ ChunkReturn /\ UNCHANGED << tickerVars, cacheVars, limiterVars >>
    \/ Return /\ UNCHANGED << tickerVars, cacheVars, limiterVars >>
    \/ Tick /\ UNCHANGED << tickerVars, cacheVars, limiterVars >>
SpecFetcher == InitFetcher /\ [][NextFetcher]_vars

InitTicker == Init
NextTicker ==
    \/ Run /\ UNCHANGED << fetcherVars, cacheVars, limiterVars >>
    \/ on_open /\ UNCHANGED << fetcherVars, cacheVars, limiterVars >>
    \/ on_connect /\ UNCHANGED << fetcherVars, cacheVars, limiterVars >>
    \/ \E batch \in StreamedBatches : on_ticks(batch) /\ UNCHANGED << fetcherVars, cacheVars, limiterVars >>
    \/ on_reconnect /\ UNCHANGED << fetcherVars, cacheVars, limiterVars >>
    \/ on_noreconnect /\ UNCHANGED << fetcherVars, cacheVars, limiterVars >>
    \/ on_close /\ UNCHANGED << fetcherVars, cacheVars, limiterVars >>
    \/ on_error /\ UNCHANGED << fetcherVars, cacheVars, limiterVars >>
    \/ on_order_update /\ UNCHANGED << fetcherVars, cacheVars, limiterVars >>
    \/ SendTask /\ UNCHANGED << fetcherVars, cacheVars, limiterVars >>
    \/ GetStop /\ UNCHANGED << fetcherVars, cacheVars, limiterVars >>
    \/ Close /\ UNCHANGED << fetcherVars, cacheVars, limiterVars >>
    \/ SetLive /\ UNCHANGED << fetcherVars, cacheVars, limiterVars >>
    \/ GetUpdate /\ UNCHANGED << fetcherVars, cacheVars, limiterVars >>
    \/ ReadInstruments /\ UNCHANGED << fetcherVars, cacheVars, limiterVars >>
    \/ Subscribe /\ UNCHANGED << fetcherVars, cacheVars, limiterVars >>
    \/ SetMode /\ UNCHANGED << fetcherVars, cacheVars, limiterVars >>
    \/ ClearUpdate /\ UNCHANGED << fetcherVars, cacheVars, limiterVars >>
    \/ \E value \in {"0", "1"} : WriteStop(value) /\ UNCHANGED << fetcherVars, cacheVars, limiterVars >>
    \/ WriteUpdate /\ UNCHANGED << fetcherVars, cacheVars, limiterVars >>
    \/ \E id \in DynamicIds : _set_instruments(id) /\ UNCHANGED << fetcherVars, cacheVars, limiterVars >>
    \/ Disconnect /\ UNCHANGED << fetcherVars, cacheVars, limiterVars >>
    \/ TakeTask /\ UNCHANGED << fetcherVars, cacheVars, limiterVars >>
    \/ Expire /\ UNCHANGED << fetcherVars, cacheVars, limiterVars >>
SpecTicker == InitTicker /\ [][NextTicker]_vars

\* The coordinator with its scheduling: the connection thread runs a
\* callback to its end, tick batches keep arriving while the session streams,
\* and the queue's workers keep taking tasks.
CallbackStep ==
    /\ \/ SendTask \/ GetStop \/ Close \/ SetLive \/ GetUpdate
       \/ ReadInstruments \/ Subscribe \/ SetMode \/ ClearUpdate
    /\ UNCHANGED << fetcherVars, cacheVars, limiterVars >>
TicksArrive ==
    /\ \E batch \in StreamedBatches : on_ticks(batch)
    /\ UNCHANGED << fetcherVars, cacheVars, limiterVars >>
TasksTaken == TakeTask /\ UNCHANGED << fetcherVars, cacheVars, limiterVars >>
SpecTickerLive ==
    /\ InitTicker /\ [][NextTicker]_vars
    /\ WF_vars(CallbackStep) /\ SF_vars(TicksArrive) /\ WF_vars(TasksTaken)

InitCache == Init
NextCache ==
    \/ \E w \in Workers, batch \in Batches : cache_on_redis(w, batch) /\ UNCHANGED << fetcherVars, tickerVars, limiterVars >>
    \/ \E w \in Workers : SetLtp(w) /\ UNCHANGED << fetcherVars, tickerVars, limiterVars >>
    \/ \E w \in Workers : RpushTick(w) /\ UNCHANGED << fetcherVars, tickerVars, limiterVars >>
    \/ \E w \in Workers : SetSnapshot(w) /\ UNCHANGED << fetcherVars, tickerVars, limiterVars >>
    \/ \E w \in Workers : RpushTickData(w) /\ UNCHANGED << fetcherVars, tickerVars, limiterVars >>
    \/ \E w \in Workers : StoreUnavailable(w) /\ UNCHANGED << fetcherVars, tickerVars, limiterVars >>
SpecCache == InitCache /\ [][NextCache]_vars

InitCallers == Init
NextCallers ==
    \/ \E p \in Callers : CallerRead(p) /\ UNCHANGED << fetcherOwnVars, tickerVars, cacheVars >>
    \/ \E p \in Callers : CallerWake(p) /\ UNCHANGED << fetcherOwnVars, tickerVars, cacheVars >>
    \/ \E p \in Callers : CallerCall(p) /\ UNCHANGED << fetcherOwnVars, tickerVars, cacheVars >>
    \/ \E p \in Callers : CallerReturn(p) /\ UNCHANGED << fetcherOwnVars, tickerVars, cacheVars >>
    \/ \E p \in Callers : CallerRaise(p) /\ UNCHANGED << fetcherOwnVars, tickerVars, cacheVars >>
    \/ \E p \in Callers : CallerRecord(p) /\ UNCHANGED << fetcherOwnVars, tickerVars, cacheVars >>
    \/ CallersTick /\ UNCHANGED << fetcherOwnVars, tickerVars, cacheVars >>
SpecCallers == InitCallers /\ [][NextCallers]_vars

-----------------------------------------------------------------------------
(* PROPERTIES                                                              *)
-----------------------------------------------------------------------------
(* Vocabulary for the fetcher's properties.                                *)

NumCalls == Len(venue_calls)
LastCall == venue_calls[NumCalls]

\* The calendar dates (as ordinals) of the i-th window sent to the venue.
WindowDays(i) == venue_calls[i].from_date.ord .. venue_calls[i].to_date.ord

\* The i-th window as the pair of dates sent.
WindowYmd(i) ==
    << Strftime(venue_calls[i].from_date), Strftime(venue_calls[i].to_date) >>

\* The requested closed date range.
RequestedDays ==
    (IF request.from_date = Absent THEN request.now.ord - 5
     ELSE Ymd2Ord(request.from_date))
    ..
    (IF request.to_date = Absent THEN request.now.ord - 1
     ELSE Ymd2Ord(request.to_date))

AllChunksReturnedData ==
    \A i \in 1..NumCalls :
        venue_calls[i].result = "returned" /\ venue_calls[i].rows # << >>

\* A finished chunk walk in which every chunk returned data.
FullWalk == pc = "done" /\ chunked /\ NumCalls > 0 /\ AllChunksReturnedData

WindowsMostRecentFirst ==
    \A i \in 1..(NumCalls - 1) :
        /\ venue_calls[i + 1].from_date.ord < venue_calls[i].from_date.ord
        /\ venue_calls[i + 1].to_date.ord < venue_calls[i].to_date.ord

WindowsCoverRequest ==
    /\ UNION {WindowDays(i) : i \in 1..NumCalls} = RequestedDays
    /\ \A i \in 1..NumCalls :
        venue_calls[i].from_date.sec = 0 /\ venue_calls[i].to_date.sec = 86399

WindowsContiguous ==
    \A i \in 1..(NumCalls - 1) :
        venue_calls[i + 1].to_date.ord >= venue_calls[i].from_date.ord - 1

WindowsDisjoint ==
    \A i, j \in 1..NumCalls : i # j => WindowDays(i) \cap WindowDays(j) = {}

\* Consecutive windows share exactly the date on which the later-fetched
\* one ends and the earlier-fetched one begins; windows further apart
\* share nothing.
WindowsShareBoundaryDate ==
    \A i, j \in 1..NumCalls :
        i < j => WindowDays(i) \cap WindowDays(j) =
                    IF j = i + 1 THEN {venue_calls[i].from_date.ord} ELSE {}

\* C1 as stated: for a span over 60 days with every chunk returning data
\* the windows are most-recent-first, cover exactly the requested range,
\* are contiguous, and no calendar date lies in two windows.
C1_WindowsDisjointCover ==
    FullWalk => /\ WindowsMostRecentFirst
                /\ WindowsCoverRequest
                /\ WindowsContiguous
                /\ WindowsDisjoint

\* C1 (amended): for a span over 60 days with every chunk returning data
\* the windows are most-recent-first, cover exactly the requested range
\* and leave no gap; each window after the first ends on the calendar
\* date on which the window before it begins, so consecutive windows
\* share exactly that one date and no date lies in three windows.
C1_WindowsCoverSharingBoundary ==
    FullWalk => /\ WindowsMostRecentFirst
                /\ WindowsCoverRequest
                /\ WindowsContiguous
                /\ WindowsShareBoundaryDate

C1_Witness == FullWalk /\ NumCalls = 3

ScenarioRequest ==
    /\ request.instrument_token = << 123 >>
    /\ request.from_date = << 2024, 1, 1 >>
    /\ request.to_date = << 2024, 4, 15 >>
    /\ request.interval = "day"

\* The windows of the scenario are a prefix of expected at every moment,
\* and all of expected once the walk has finished with data in every chunk.
ScenarioWindows(expected) ==
    ScenarioRequest =>
        /\ NumCalls <= Len(expected)
        /\ \A i \in 1..NumCalls : WindowYmd(i) = expected[i]
        /\ (pc = "done" /\ AllChunksReturnedData => NumCalls = Len(expected))

\* C2 as stated: the scenario 2024-01-01 .. 2024-04-15 issues exactly two
\* chunk fetches, [2024-02-15, 2024-04-15] then [2024-01-01, 2024-02-14].
C2_ScenarioSecondEndsFeb14 ==
    ScenarioWindows(<< << << 2024, 2, 15 >>, << 2024, 4, 15 >> >>,
                       << << 2024, 1, 1 >>, << 2024, 2, 14 >> >> >>)

\* C2 (amended): the scenario issues exactly two chunk fetches,
\* [2024-02-15, 2024-04-15] then [2024-01-01, 2024-02-15].
C2_ScenarioSecondEndsFeb15 ==
    ScenarioWindows(<< << << 2024, 2, 15 >>, << 2024, 4, 15 >> >>,
                       << << 2024, 1, 1 >>, << 2024, 2, 15 >> >> >>)

C2_Witness == ScenarioRequest /\ FullWalk /\ NumCalls = 2

\* The frame step2 makes of the i-th chunk's rows.
FrameOfCall(i) ==
    RenameColumns(venue_calls[i].rows, request.instrument_token[1],
                  request.interval)

\* C3: historical_data returns a dataset built from every chunk the walk
\* fetched, or it raises: a venue error that survives the retries on chunk
\* k reaches the caller, chunk k is the last fetch issued, and none of the
\* rows collected from chunks 1..k-1 is returned.
C3_CompleteOrError ==
    /\ \A k \in 1..(NumCalls - 1) : venue_calls[k].result = "returned"
    /\ (pc = "done" /\ NumCalls > 0 /\ LastCall.result \in Exceptions) =>
            /\ outcome.kind = "raised"
            /\ outcome.exc = LastCall.result
            /\ outcome.df = << >>
    /\ outcome.kind = "returned" =>
            /\ \A k \in 1..NumCalls : venue_calls[k].result = "returned"
            /\ outcome.df =
                 DeriveCalendar(DropDuplicates(
                     Concat([k \in 1..NumCalls |-> FrameOfCall(k)])))

C3_Witness ==
    /\ pc = "done"
    /\ NumCalls = 2
    /\ LastCall.result = "NetworkException"
    /\ historical_dfs # << >>
    /\ outcome.kind = "raised"

\* C4: one chunk fetch invokes the venue at most 5 times; a success on
\* attempt k <= 5 is what step2 receives; after 5 transient failures the
\* error of the 5th attempt reaches the caller and there is no 6th
\* attempt; every attempt after the first follows a wait of 5 seconds.
C4_BoundedRetry ==
    /\ attempt_number <= 5
    /\ pc = "retry_wait" => attempt_number < 5
    /\ pc = "rate_record" =>
            LastCall.result = "returned" /\ response = LastCall.rows
    /\ (pc = "done" /\ NumCalls > 0 /\ attempt_number = 5
            /\ LastCall.result \in Exceptions) =>
            outcome = [kind |-> "raised", df |-> << >>, exc |-> LastCall.result]
    /\ (pc = "venue_call" /\ attempt_number >= 1) => last_wait = 5 * 1000
    /\ (pc # "venue_call" /\ attempt_number >= 2) => last_wait = 5 * 1000
    /\ (pc # "venue_call" /\ attempt_number = 1) => last_wait = 0

C4_Witness ==
    pc = "rate_record" /\ attempt_number = 5 /\ response # << >>

TransientKinds == {"NetworkException", "GeneralException", "DataException"}

\* C5: a venue error is retried exactly when it is a network, general or
\* data failure: only those are followed by a wait, they propagate only
\* from the last permitted attempt, and any other error reaches the
\* caller unchanged from the attempt that raised it.
C5_RetryOnlyTransient ==
    /\ pc = "retry_wait" => LastCall.result \in TransientKinds
    /\ (pc = "done" /\ NumCalls > 0 /\ LastCall.result \in TransientKinds) =>
            attempt_number = 5
    /\ (NumCalls > 0 /\ LastCall.result \in Exceptions \ TransientKinds) =>
            /\ pc = "done"
            /\ outcome = [kind |-> "raised", df |-> << >>,
                          exc |-> LastCall.result]

C5_Witness ==
    /\ pc = "done"
    /\ attempt_number = 1
    /\ NumCalls = 1
    /\ LastCall.result = "TokenException"

\* C6: when step2 is about to call the venue and the stored timestamp was
\* less than the minimum interval old when read, step2 has slept the
\* remainder, so at least that much time has passed since the read and
\* the timestamp is now at least the minimum interval old; when it was
\* older than the interval, or absent, step2 has not slept.
C6_MinimumInterval ==
    (pc = "venue_call" /\ attempt_number = 0) =>
        /\ (elapsed_time # Absent /\ elapsed_time[1] < MinInterval) =>
                /\ slept = MinInterval - elapsed_time[1]
                /\ since_read >= MinInterval - elapsed_time[1]
                /\ rate_limit # Absent
                /\ rate_limit[1] >= MinInterval
        /\ (elapsed_time = Absent \/ elapsed_time[1] > MinInterval) =>
                slept = 0 /\ since_read <= AgeCap

C6_Witness ==
    /\ pc = "venue_call"
    /\ attempt_number = 0
    /\ elapsed_time = << 1 >>
    /\ slept = MinInterval - 1
    /\ NumCalls = 1


-----------------------------------------------------------------------------
(* The stream coordinator's callbacks.                                     *)

\* The places in the trace where the callback made the call `op`.
Calls(op) == {i \in 1..Len(trace) : trace[i].op = op}

\* The task on_ticks owes the queue for the batch it received.
BatchTask == [name |-> TaskName, args |-> ticks]

ForwardedOnce ==
    handler = "on_ticks" =>
        /\ Cardinality(Calls("send_task")) = (IF t_pc = "send_task" THEN 0 ELSE 1)
        /\ \A i \in Calls("send_task") : i = 1 /\ trace[i].batch = ticks
                                         /\ trace[i].text = TaskName
        /\ t_pc \in {"get_stop", "close"} => Calls("send_task") # {}

QueueGrowsBySendTask ==
    task_queue' # task_queue =>
        \/ task_queue # << >> /\ task_queue' = Tail(task_queue)
        \/ /\ t_pc = "send_task"
           /\ task_queue' = Append(task_queue, BatchTask)
           /\ trace' = Append(trace, Ev("send_task", << >>, TaskName, ticks))
           /\ UNCHANGED ticks

\* C7: on_ticks submits the batch it received, unmodified and under the fixed
\* task name, to the task queue exactly once, as its first call: the stop
\* flag is read, and close() is called, only after the submission, also when
\* the stop key held "1" before the batch arrived.
C7_ForwardBeforeStop == [](ForwardedOnce) /\ [][QueueGrowsBySendTask]_vars

\* A batch of two ticks arrived with the stop key at "1"; it was submitted,
\* then the flag was read and the session closed.
C7_Witness ==
    /\ handler = "on_ticks" /\ t_pc = "idle" /\ stop_held
    /\ Len(ticks) = 2
    /\ Len(trace) = 3
    /\ trace[1].op = "send_task" /\ trace[1].batch = ticks
    /\ trace[2].op = "get_stop" /\ trace[3].op = "close"
    /\ task_queue = << BatchTask >>

\* What on_ticks has done once it has read the stop flag as "1": nothing, then
\* close(), and nothing after it.
ClosesAndNothingElse(i) ==
    \/ Len(trace) = i /\ t_pc = "close"
    \/ /\ Len(trace) = i + 1 /\ trace[i + 1].op = "close" /\ t_pc = "idle"
       /\ ws_state = "closed"

\* C8: a tick handler invoked while the stop key holds "1", the key left set,
\* calls close() exactly once; a handler that reads stop = "1" calls nothing
\* but that close() afterwards (no liveness refresh, no read or write of the
\* subscriptions-changed flag, no subscribe or set_mode); a handler that
\* reads another stop value does not call close(), and no other callback
\* calls it.
C8_StopClosesSession ==
    /\ Cardinality(Calls("close")) <= 1
    /\ handler # "on_ticks" => Calls("close") = {} /\ t_pc # "close"
    /\ handler = "on_ticks" =>
        /\ Cardinality(Calls("get_stop")) <= 1
        /\ \A i \in Calls("get_stop") :
              IF trace[i].text = "1"
              THEN ClosesAndNothingElse(i)
              ELSE Calls("close") = {} /\ t_pc # "close"
        /\ (Calls("get_stop") = {}) => Calls("close") = {} /\ t_pc # "close"
        /\ (stop_held /\ t_pc = "idle") =>
              /\ Cardinality(Calls("close")) = 1
              /\ \E i \in Calls("get_stop") : trace[i].text = "1"
        /\ (stop_held /\ t_pc \notin {"idle", "send_task", "get_stop"}) =>
              t_pc = "close"

\* The stop key held "1" when a batch arrived and a re-merge was requested:
\* the handler closed the session, leaving the liveness key expired and the
\* request unserved.
C8_Witness ==
    /\ handler = "on_ticks" /\ t_pc = "idle" /\ stop_held
    /\ ws_state = "closed"
    /\ Calls("close") = {3}
    /\ kt_is_live = 0
    /\ kt_subscriptions_update = "1"
    /\ kt_subscriptions # << >>

\* The lists the callback passed to the venue client.
SubscriptionLists == {trace[i].ids : i \in Calls("subscribe") \cup Calls("set_mode")}

ContainsDefaults(ids) ==
    \A k \in 1..Len(DefaultSubscriptions) :
        \E j \in 1..Len(ids) : ids[j] = DefaultSubscriptions[k]

\* C9: every list passed to subscribe or set_mode, by on_connect or by a
\* flag-driven resubscription in on_ticks, contains every token of the default
\* set, whatever the dynamic list holds and whatever writes went before.
C9_DefaultsAlwaysSubscribed ==
    /\ \A ids \in SubscriptionLists : ContainsDefaults(ids)
    /\ t_pc \in {"subscribe", "set_mode"} => ContainsDefaults(merged)

\* on_ticks resubscribed with a non-empty dynamic list, and on its request.
C9_Witness ==
    /\ handler = "on_ticks"
    /\ Calls("subscribe") # {} /\ Calls("set_mode") # {}
    /\ \E ids \in SubscriptionLists : Len(ids) > Len(DefaultSubscriptions)

-----------------------------------------------------------------------------
(* The cache task's writes.                                                *)

\* The two store calls cache_on_redis owes one tick.
TickWrites(tick) ==
    << StoreOp("set", LtpKey(tick.instrument_token), Repr(tick.last_price)),
       StoreOp("rpush", ListKey(tick.instrument_token), JsonDumps(tick)) >>

RECURSIVE PerTickWrites(_)
PerTickWrites(batch) ==
    IF batch = << >> THEN << >>
    ELSE TickWrites(Head(batch)) \o PerTickWrites(Tail(batch))

\* The two store calls it owes the whole batch.
BatchWrites(batch) ==
    << StoreOp("set", KITE_SNAPSHOT_DATA, JsonDumpsList(batch)),
       StoreOp("rpush", KITE_TICK_DATA, JsonDumpsList(batch)) >>

SameCall(a, b) == a.op = b.op /\ a.key = b.key /\ a.value = b.value

\* The calls `log` are the first of the calls `owed`, in their order.
IsPrefixOfCalls(log, owed) ==
    /\ Len(log) <= Len(owed)
    /\ \A k \in 1..Len(log) : SameCall(log[k], owed[k])

WritesInBatchOrder(w) ==
    LET self == worker[w]
        owed == PerTickWrites(self.ticks) \o BatchWrites(self.ticks)
    IN  /\ IsPrefixOfCalls(self.log, owed)
        /\ self.status = "done" <=> (self.ticks # << >> /\ Len(self.log) = Len(owed))
        /\ \A k \in 1..Len(self.log) :
              self.log[k].key \in {KITE_SNAPSHOT_DATA, KITE_TICK_DATA}
                  => k > Len(PerTickWrites(self.ticks))
        /\ (self.status = "failed" /\ Len(self.log) < Len(PerTickWrites(self.ticks)))
              => \A k \in 1..Len(self.log) :
                    self.log[k].key \notin {KITE_SNAPSHOT_DATA, KITE_TICK_DATA}

\* The store after the call `c`.
LtpAfter(c) ==
    IF c.op = "set" /\ c.key.name = "kt:ltp"
    THEN [kt_ltp EXCEPT ![c.key.token] = << c.value >>] ELSE kt_ltp
TicksAfter(c) ==
    IF c.op = "rpush" /\ c.key.name = "kt"
    THEN [kt_ticks EXCEPT ![c.key.token] = Append(@, c.value)] ELSE kt_ticks
SnapshotAfter(c) ==
    IF c.op = "set" /\ c.key = KITE_SNAPSHOT_DATA THEN << c.value >> ELSE kt_snapshot
TickDataAfter(c) ==
    IF c.op = "rpush" /\ c.key = KITE_TICK_DATA
    THEN Append(kt_tick_data, c.value) ELSE kt_tick_data

\* The store changes only by one worker's next call.
StoreChangesByLoggedCall ==
    << kt_ltp, kt_ticks, kt_snapshot, kt_tick_data >>'
            # << kt_ltp, kt_ticks, kt_snapshot, kt_tick_data >>
        => \E w \in Workers :
              /\ Len(worker'[w].log) = Len(worker[w].log) + 1
              /\ worker'[w].ticks = worker[w].ticks
              /\ \A v \in Workers \ {w} : worker'[v] = worker[v]
              /\ LET c == worker'[w].log[Len(worker'[w].log)]
                 IN  /\ kt_ltp' = LtpAfter(c)
                     /\ kt_ticks' = TicksAfter(c)
                     /\ kt_snapshot' = SnapshotAfter(c)
                     /\ kt_tick_data' = TickDataAfter(c)

\* C10: for each batch cache_on_redis processes, its store calls are, for
\* every tick in batch order, the set of the instrument's last-price key to
\* the tick's last_price and the append of the serialized tick to the
\* instrument's list, and only then the set of the snapshot key to the
\* serialized batch and the append of the serialized batch to the global tick
\* log; each call changes the store by just that write, so a task that fails
\* among the per-tick writes has touched neither the snapshot nor the log.
C10_PerTickThenBatchWrites ==
    [](\A w \in Workers : WritesInBatchOrder(w)) /\ [][StoreChangesByLoggedCall]_vars

\* A task has written a two-tick batch completely, while another task failed
\* among its per-tick writes.
C10_Witness ==
    \E w, v \in Workers :
        /\ worker[w].status = "done" /\ Len(worker[w].ticks) = 2
        /\ Len(worker[w].log) = 6
        /\ worker[v].status = "failed"
        /\ Len(worker[v].log) \in 1..(2 * Len(worker[v].ticks) - 1)
        /\ kt_snapshot = << JsonDumpsList(worker[w].ticks) >>
        /\ kt_tick_data = << JsonDumpsList(worker[w].ticks) >>

-----------------------------------------------------------------------------
(* Re-delivery of a batch to the cache task.                               *)

\* The four parts of the store cache_on_redis writes.
CacheStore ==
    [ltp |-> kt_ltp, ticks |-> kt_ticks, snapshot |-> kt_snapshot,
     tick_data |-> kt_tick_data]

EmptyCacheStore ==
    [ltp |-> [token \in InstrumentTokens |-> << >>],
     ticks |-> [token \in InstrumentTokens |-> << >>],
     snapshot |-> << >>,
     tick_data |-> << >>]

\* The store `store` after the call `c`.
StoreApply(store, c) ==
    CASE c.op = "set" /\ c.key.name = "kt:ltp" ->
            [store EXCEPT !.ltp[c.key.token] = << c.value >>]
      [] c.op = "rpush" /\ c.key.name = "kt" ->
            [store EXCEPT !.ticks[c.key.token] = Append(@, c.value)]
      [] c.op = "set" /\ c.key = KITE_SNAPSHOT_DATA ->
            [store EXCEPT !.snapshot = << c.value >>]
      [] c.op = "rpush" /\ c.key = KITE_TICK_DATA ->
            [store EXCEPT !.tick_data = Append(@, c.value)]

RECURSIVE StoreApplyAll(_, _)
StoreApplyAll(store, calls) ==
    IF calls = << >> THEN store
    ELSE StoreApplyAll(StoreApply(store, Head(calls)), Tail(calls))

\* The store after one processing of the batch, from an empty store.
ProcessedOnce(batch) ==
    StoreApplyAll(EmptyCacheStore, PerTickWrites(batch) \o BatchWrites(batch))

\* The same batch was delivered twice, once to each worker, nothing else was
\* delivered, and both tasks ran to their end.
DeliveredTwice(batch) ==
    /\ deliveries = 2
    /\ \A w \in Workers : worker[w].status = "done" /\ worker[w].ticks = batch

\* C11: processing the same batch a second time leaves the store as one
\* processing leaves it: the last-price keys, the per-instrument lists, the
\* snapshot key and the global tick log.
C11_RedeliveryIdempotent ==
    \A batch \in Batches : DeliveredTwice(batch) => CacheStore = ProcessedOnce(batch)

-----------------------------------------------------------------------------
(* Empty chunk responses.                                                  *)

\* The walk has ended on an empty response to a chunk that was not the
\* final (residual) one.
StoppedOnEmptyChunk ==
    /\ pc = "done" /\ chunked /\ NumCalls > 0
    /\ LastCall.result = "returned" /\ LastCall.rows = << >>
    /\ ~is_break

\* The frames of the chunks fetched before the last one.
FramesBeforeLast == [k \in 1..(NumCalls - 1) |-> FrameOfCall(k)]

\* C12: in a multi-chunk walk an empty response on a non-final chunk, the
\* first one included, is not a failure: historical_data stops the walk and
\* returns the normalized dataset of the chunks collected so far.
C12_EmptyChunkStopsWithoutError ==
    StoppedOnEmptyChunk =>
        /\ outcome.kind = "returned"
        /\ outcome.df = DeriveCalendar(DropDuplicates(Concat(FramesBeforeLast)))

-----------------------------------------------------------------------------
(* The returned dataset.                                                   *)

\* C13: the dataset historical_data returns is in ascending record_datetime
\* order, also when it is assembled from several chunks fetched
\* most-recent-first.
C13_ReturnedAscending ==
    outcome.kind = "returned" =>
        \A i \in 1..(Len(outcome.df) - 1) :
            DtLe(outcome.df[i].record_datetime, outcome.df[i + 1].record_datetime)

\* The i-th and the j-th fetched chunk both returned the same row.
ChunksShareRow(i, j) ==
    \E a \in 1..Len(venue_calls[i].rows), b \in 1..Len(venue_calls[j].rows) :
        venue_calls[i].rows[a] = venue_calls[j].rows[b]

\* C14: no two rows of the returned dataset are equal on all fields: a row
\* that two overlapping chunks both returned is in the dataset exactly once.
C14_NoIdenticalRows ==
    outcome.kind = "returned" =>
        \A i, j \in 1..Len(outcome.df) :
            i # j => outcome.df[i] # outcome.df[j]

\* Two chunks returned an identical row and the dataset was returned.
C14_Witness ==
    /\ outcome.kind = "returned"
    /\ NumCalls = 2
    /\ ChunksShareRow(1, 2)
    /\ Len(outcome.df) = Len(venue_calls[1].rows) + Len(venue_calls[2].rows) - 1

\* The key of a row of the dataset.
RecordKey(row) == << row.instrument_token, row.interval, row.record_datetime >>

\* C15: in the returned dataset the key (instrument_token, interval,
\* record_datetime) is unique, also when two overlapping chunks returned
\* rows with the same record_datetime and different values.
C15_RecordKeyUnique ==
    outcome.kind = "returned" =>
        \A i, j \in 1..Len(outcome.df) :
            i # j => RecordKey(outcome.df[i]) # RecordKey(outcome.df[j])

-----------------------------------------------------------------------------
(* The span of the windows sent to the venue.                              *)

SecondsPerDay == 24 * 60 * 60

\* The time from the i-th window's lower bound to its upper bound, in seconds.
WindowSeconds(i) ==
    (venue_calls[i].to_date.ord - venue_calls[i].from_date.ord) * SecondsPerDay
        + (venue_calls[i].to_date.sec - venue_calls[i].from_date.sec)

\* The number of dates from the i-th window's lower to its upper date.
WindowDateSpan(i) == venue_calls[i].to_date.ord - venue_calls[i].from_date.ord

\* C16 as stated: between the two datetimes sent to the venue lie no more
\* than 60 days, in the chunked and in the single-call path.
C16_WindowWithin60Days ==
    \A i \in 1..NumCalls :
        WindowSeconds(i) <= KITE_HISTORICAL_DATA_REQUEST_INTERVAL_LIMIT * SecondsPerDay

\* C16, amended: every window sent to the venue runs from 00:00:00 of its
\* first date to 23:59:59 of its last date, and its last date is at most 60
\* calendar days after its first: between the two datetimes lie fewer than
\* 61 days (at most 60 days 23:59:59), in the chunked and in the single-call
\* path.
C16_WindowWithin60Dates ==
    \A i \in 1..NumCalls :
        /\ venue_calls[i].from_date.sec = 0
        /\ venue_calls[i].to_date.sec = SecondsPerDay - 1
        /\ WindowDateSpan(i) <= KITE_HISTORICAL_DATA_REQUEST_INTERVAL_LIMIT
        /\ WindowSeconds(i) < (KITE_HISTORICAL_DATA_REQUEST_INTERVAL_LIMIT + 1) * SecondsPerDay

\* A chunk walk whose first window spans the full 60 dates has fetched its
\* second window.
C16_Witness ==
    /\ chunked /\ NumCalls = 2
    /\ WindowDateSpan(1) = KITE_HISTORICAL_DATA_REQUEST_INTERVAL_LIMIT
    /\ venue_calls[2].result = "returned"

-----------------------------------------------------------------------------
(* Concurrent fetcher processes on the shared timestamp.                   *)

\* The venue calls a process started within the window and that have not
\* raised.
StandingCalls(p) == {c \in recent_calls : c.caller = p /\ ~c.raised}

\* C17 as stated: whatever the number of concurrent processes, at most two
\* venue calls start within any window shorter than minInterval.
C17_AtMostTwoCallsPerWindow == Cardinality(recent_calls) <= 2

\* C17, amended: within any window shorter than minInterval each process
\* starts at most one venue call that does not raise, so n concurrent
\* processes whose calls return start at most n calls in such a window (two
\* for two processes); three processes that read the same stale timestamp
\* all call at once.
C17_OneCallPerProcessPerWindow ==
    /\ \A p \in Callers : Cardinality(StandingCalls(p)) <= 1
    /\ Cardinality(UNION {StandingCalls(p) : p \in Callers}) <= Cardinality(Callers)

\* Three processes have started their venue calls at the same instant, each
\* having read the timestamp before any of them wrote it.
C17_Witness ==
    /\ \A p \in Callers : caller_pc[p] = "in_call"
    /\ \A p \in Callers : \E c \in StandingCalls(p) : c.age = 0
    /\ rate_limit # Absent

-----------------------------------------------------------------------------
(* Subscribing: on_connect and the flag-driven resubscription.             *)

\* The calls of a full subscription, in their order, for the dynamic list
\* `dynamic` as the callback read it: the list read, one subscribe and one
\* set_mode(FULL) over the default list followed by the dynamic one and, in
\* on_ticks, the clearing of the flag.
SubscriptionCalls(name, dynamic) ==
    << Ev("lrange", dynamic, None, << >>),
       Ev("subscribe", DefaultSubscriptions \o dynamic, None, << >>),
       Ev("set_mode", DefaultSubscriptions \o dynamic, MODE_FULL, << >>) >>
    \o (IF name = "on_ticks" THEN << Ev("set_update", << >>, "0", << >>) >>
        ELSE << >>)

\* From its place k on, the trace holds the calls of a full subscription as
\* far as the callback has come, and all of them once it is done.
SubscribesFrom(k) ==
    LET n == Len(trace) - k + 1
    IN  /\ t_pc = "idle" <=> n = Len(SubscriptionCalls(handler, << >>))
        /\ n >= 1 =>
              LET owed == SubscriptionCalls(handler, trace[k].ids)
              IN  /\ n <= Len(owed)
                  /\ \A i \in 1..n :
                        /\ trace[k + i - 1].op = owed[i].op
                        /\ trace[k + i - 1].ids = owed[i].ids
                        /\ trace[k + i - 1].text = owed[i].text

\* C18: on_connect, and every on_ticks that reads stop other than "1" and
\* subscriptions-changed as "1", issues exactly one subscribe and then exactly
\* one set_mode(FULL), both over the default list followed by the dynamic
\* list as the callback read it; on_ticks clears the flag only after both.
\* An on_ticks that reads subscriptions-changed other than "1" issues no
\* subscribe or set_mode and does not write the flag.
C18_FullResubscription ==
    /\ handler = "on_connect" => SubscribesFrom(1)
    /\ handler = "on_ticks" =>
          /\ Cardinality(Calls("get_update")) <= 1
          /\ \A k \in Calls("get_update") :
                IF trace[k].text = "1"
                THEN SubscribesFrom(k + 1)
                ELSE Len(trace) = k /\ t_pc = "idle"
          /\ Calls("get_update") = {} =>
                Calls("subscribe") \cup Calls("set_mode") \cup Calls("set_update") = {}
          /\ Cardinality(Calls("subscribe")) <= 1
          /\ Cardinality(Calls("set_mode")) <= 1
    /\ handler \notin {"on_connect", "on_ticks"} =>
          Calls("subscribe") \cup Calls("set_mode") \cup Calls("set_update") = {}

\* on_ticks found the flag at "1", resubscribed to the default list followed
\* by two dynamic ids, and cleared the flag.
C18_Witness ==
    /\ handler = "on_ticks" /\ t_pc = "idle"
    /\ Len(trace) = 8
    /\ trace[6].op = "subscribe" /\ trace[7].op = "set_mode"
    /\ trace[8].op = "set_update"
    /\ Len(trace[6].ids) = Len(DefaultSubscriptions) + 2
    /\ kt_subscriptions_update = "0"

-----------------------------------------------------------------------------
(* Requests for additional coverage.                                       *)

\* C19: an id that another process appended to the dynamic list and then
\* flagged by writing "1" to subscriptions-changed is eventually contained in
\* a subscribe call, as long as tick batches keep arriving, the stop key is
\* not "1" and the session keeps streaming, however the two writes
\* interleave with a running on_ticks.
C19_FlaggedIdSubscribed ==
    \A id \in DynamicIds :
        (id \in pending_ids)
            ~> (id \notin pending_ids \/ kt_stop = "1" \/ ws_state # "streaming")

-----------------------------------------------------------------------------
(* The liveness key.                                                       *)

\* What on_ticks does around the liveness refresh: the batch is forwarded,
\* the stop key is read, and only if it did not read "1" the key is set, as
\* the third call; the subscriptions-changed flag is read next, as the
\* fourth.
LiveOrder ==
    IF handler = "on_ticks"
    THEN /\ \A i \in Calls("get_stop") :
               trace[i].text # "1" =>
                   \/ Len(trace) = i /\ t_pc = "setex"
                   \/ Len(trace) > i /\ trace[i + 1].op = "setex_is_live"
         /\ \A j \in Calls("setex_is_live") :
               /\ j = 3
               /\ trace[1].op = "send_task" /\ trace[1].batch = ticks
               /\ trace[2].op = "get_stop" /\ trace[2].text # "1"
               /\ trace[j].text = "1"
               /\ \/ Len(trace) = j /\ t_pc = "get_update"
                  \/ Len(trace) > j /\ trace[j + 1].op = "get_update"
         /\ \A k \in Calls("get_update") : k = 4
         /\ t_pc = "setex" => Len(trace) = 2 /\ trace[2].text # "1"
    ELSE Calls("setex_is_live") = {} /\ t_pc # "setex"

\* The step that sets the liveness key: on_ticks, having forwarded the batch
\* and read a stop value other than "1", sets it with the full TTL.
LiveRefreshed ==
    /\ handler = "on_ticks" /\ t_pc = "setex" /\ t_pc' = "get_update"
    /\ ws_state = "streaming"
    /\ Len(trace) = 2 /\ trace[2].op = "get_stop" /\ trace[2].text # "1"
    /\ kt_is_live' = LIVE_TTL

\* How the key's remaining life changes in one step: it grows only by such a
\* refresh, it shrinks only by one time unit passing, and once the session is
\* closed it is never refreshed and the session stays closed.
LiveStep ==
    /\ kt_is_live' > kt_is_live => LiveRefreshed
    /\ kt_is_live' < kt_is_live => kt_is_live' = kt_is_live - 1
    /\ ws_state = "closed" => kt_is_live' <= kt_is_live /\ ws_state' = "closed"

\* C20: every tick batch handled while the stop key does not read "1" sets
\* the liveness key with a life of 3 time units, after the batch was
\* forwarded and before the subscriptions-changed flag is read; the key's
\* remaining life is at most 3, is raised by nothing else and falls by one
\* per time unit, so the key is present only within 3 time units of such a
\* batch; after a stop-triggered close the key is never set again and the
\* session is not reopened, so the key is absent within 3 time units and
\* stays absent.
C20_LivenessFollowsBatches ==
    /\ [](LiveOrder /\ kt_is_live \in 0..LIVE_TTL)
    /\ [][LiveStep]_vars

\* A batch set the liveness key; a later batch found the stop key at "1" and
\* closed the session; two time units on the key has one unit left to live.
C20_Witness ==
    /\ ws_state = "closed"
    /\ handler = "on_ticks" /\ t_pc = "idle"
    /\ Calls("close") = {3} /\ Calls("setex_is_live") = {}
    /\ kt_is_live = 1

-----------------------------------------------------------------------------
(* The walk after an empty chunk.                                          *)

\* The latest chunk fetch of a chunk walk came back empty.
LastChunkEmpty ==
    /\ chunked /\ NumCalls > 0
    /\ LastCall.result = "returned" /\ LastCall.rows = << >>

\* C21: in a chunk walk no venue fetch follows an empty chunk response:
\* every fetch but the latest returned rows, and after an empty response the
\* call only records the timestamp and finishes; when chunks were collected
\* before the empty one, final or not, the call returns the dataset built
\* from exactly those chunks.
C21_EmptyChunkEndsWalk ==
    /\ chunked => \A k \in 1..(NumCalls - 1) : venue_calls[k].rows # << >>
    /\ LastChunkEmpty => pc \in {"rate_record", "done"}
    /\ (LastChunkEmpty /\ pc = "done" /\ NumCalls >= 2) =>
            /\ historical_dfs = FramesBeforeLast
            /\ outcome = Returned(DeriveCalendar(DropDuplicates(
                                      Concat(FramesBeforeLast))))

\* A request of three chunks: the first returned rows, the second, not the
\* residual one, came back empty, and the call returned the first chunk's
\* rows without a third fetch.
C21_Witness ==
    /\ LastChunkEmpty /\ pc = "done"
    /\ NumCalls = 2 /\ ~is_break
    /\ DtLe(from_date, LastCall.from_date) /\ from_date # LastCall.from_date
    /\ outcome.kind = "returned" /\ Len(outcome.df) > 0

-----------------------------------------------------------------------------
(* Duplicates in the merged list.                                          *)

\* The list holds no token twice.
NoTokenTwice(ids) ==
    \A i, j \in 1..Len(ids) : ids[i] = ids[j] => i = j

\* C22: every list passed to subscribe or set_mode holds each instrument
\* token at most once, also when the dynamic list holds a token of the
\* default set or holds one token twice.
C22_NoDuplicateTokens ==
    \A ids \in SubscriptionLists : NoTokenTwice(ids)

-----------------------------------------------------------------------------
(* The observational callbacks.                                            *)

Observers == {"on_open", "on_reconnect", "on_noreconnect", "on_close", "on_error"}

\* This step is an invocation of the callback `name`.
Invokes(name) == handler' = name /\ (handler # name \/ trace' # trace)

\* The store keys other than the order-updated flag, the session, the task
\* queue and the subscriptions are as they were.
StoreAndSessionKept ==
    UNCHANGED << ws_state, kt_stop, kt_subscriptions_update, kt_is_live,
                 kt_subscriptions, task_queue, merged, ticks, t_pc,
                 pending_ids, subscribed_ids >>

\* What a step that invokes a logging callback, or on_order_update, does.
ObservationalStep ==
    /\ \A name \in Observers :
          Invokes(name) =>
              /\ trace' = << >>
              /\ StoreAndSessionKept
              /\ UNCHANGED kt_order_update
    /\ Invokes("on_order_update") =>
              /\ trace' = << Ev("set_order_update", << >>, "1", << >>) >>
              /\ kt_order_update' = "1"
              /\ StoreAndSessionKept

\* C23: on_open, on_reconnect, on_noreconnect, on_close and on_error make
\* no call (no subscribe, set_mode or close, no task submitted) and leave
\* every store key, the session and the queue as they were; on_order_update
\* sets the order-updated flag to 1, and does nothing else.
C23_ObserversChangeNothing ==
    /\ [](handler \in Observers => trace = << >> /\ t_pc = "idle")
    /\ [](handler = "on_order_update" =>
              /\ Len(trace) = 1 /\ trace[1].op = "set_order_update"
              /\ t_pc = "idle" /\ kt_order_update = "1")
    /\ [][ObservationalStep]_vars

\* An order update set its flag, a batch set the liveness key, the stop key
\* was written and the session closed; on_close then ran, and all of these
\* are as they were.
C23_Witness ==
    /\ handler = "on_close" /\ ws_state = "closed"
    /\ kt_order_update = "1" /\ kt_stop = "1" /\ kt_is_live > 0
    /\ kt_subscriptions # << >>

-----------------------------------------------------------------------------
(* The length of the chunk walk.                                           *)

CeilDiv(a, b) == (a + b - 1) \div b

\* (to_date - from_date).days of the request, as step1 first computes it: the
\* first window's upper bound is the request's to_date.
SpanDays == DiffDays(venue_calls[1].to_date, from_date)

\* Every chunk fetched so far returned rows.
NoChunkEmptyOrFailed ==
    \A k \in 1..NumCalls :
        venue_calls[k].result = "returned" /\ venue_calls[k].rows # << >>

\* The bound on the number of chunk fetches of the running call.
WalkLength ==
    /\ (pc = "done" /\ outcome.exc # "AssertionError") => NumCalls >= 1
    /\ NumCalls >= 1 =>
          IF SpanDays > threshold_limit
          THEN /\ chunked
               /\ NumCalls <= CeilDiv(SpanDays, threshold_limit)
               /\ (pc = "done" /\ NoChunkEmptyOrFailed) =>
                      NumCalls = CeilDiv(SpanDays, threshold_limit)
               /\ \A k \in 1..(NumCalls - 1) :
                      venue_calls[k + 1].to_date =
                          [ord |-> venue_calls[k].to_date.ord - threshold_limit,
                           sec |-> venue_calls[k].to_date.sec]
          ELSE ~chunked /\ NumCalls = 1

\* While a call runs its from_date stays as it is.
FromDateFixed ==
    (pc # "idle" /\ pc' # "idle") => from_date' = from_date

\* The chunk fetches the running call may still owe: the current one and
\* one per further 60 days between from_date and the current upper bound.
ChunksLeft ==
    IF chunked /\ ~is_break
    THEN CeilDiv(DiffDays(to_date, from_date), threshold_limit)
    ELSE 1

\* The steps the current chunk fetch may still take: the read, the sleep,
\* up to 5 attempts with a wait before each but the first, the write.
StepsLeft ==
    CASE pc = "rate_read"   -> 2 * stop_max_attempt_number + 4
      [] pc = "rate_sleep"  -> 2 * stop_max_attempt_number + 3
      [] pc = "venue_call"  -> 2 * (stop_max_attempt_number - attempt_number) + 2
      [] pc = "retry_wait"  -> 2 * (stop_max_attempt_number - attempt_number) + 3
      [] pc = "rate_record" -> 1
      [] OTHER              -> 0

\* A measure of the work a running call has left; 0 once it has ended.
Rank ==
    IF pc \in {"idle", "done"} THEN 0
    ELSE ChunksLeft * (2 * stop_max_attempt_number + 5) + StepsLeft

\* Every step a running call takes lowers the measure.
RankFalls ==
    (pc \notin {"idle", "done"} /\ (pc' # pc \/ attempt_number' # attempt_number))
        => Rank' < Rank

\* C24: the chunk walk terminates.  Each chunk after the first has its upper
\* bound exactly 60 days before the previous one's while from_date stays
\* fixed; a request spanning D > 60 days issues at most ceil(D / 60) chunk
\* fetches, and exactly that many when no chunk is empty and none fails; a
\* request spanning D <= 60 days, from_date after to_date included, issues
\* exactly one; and every step of a running call lowers a measure that is
\* a natural number, so no call takes steps forever.
C24_WalkTerminates ==
    /\ [](WalkLength /\ Rank \in Nat)
    /\ [][FromDateFixed /\ RankFalls]_vars

\* A request spanning more than 120 days was fetched in three chunks, none
\* of them empty, and returned.
C24_Witness ==
    /\ pc = "done" /\ NumCalls = 3 /\ NoChunkEmptyOrFailed
    /\ SpanDays > 2 * threshold_limit
    /\ outcome.kind = "returned"

-----------------------------------------------------------------------------
(* Writes of the rate-limit timestamp.                                     *)

\* This step writes the stored timestamp: its age, which the passing of time
\* only raises, appears or falls.
TimestampWritten ==
    /\ rate_limit' # rate_limit
    /\ rate_limit' # Absent
    /\ rate_limit = Absent \/ rate_limit'[1] < rate_limit[1]

\* Where the timestamp is written, read and left alone.
TimestampStep ==
    /\ TimestampWritten =>
          /\ pc = "rate_record"
          /\ LastCall.result = "returned" /\ LastCall.rows = response
          /\ rate_limit' = << 0 >>
    /\ (pc = "rate_record" /\ pc' # pc) => rate_limit' = << 0 >>
    /\ pc \in {"venue_call", "retry_wait"} =>
          /\ ~TimestampWritten
          /\ elapsed_time' = elapsed_time /\ slept' = slept
    /\ (pc = "venue_call" /\ pc' = "done") =>
          /\ outcome'.kind = "raised"
          /\ rate_limit' = rate_limit

\* C25: the rate-limit timestamp is written only when a chunk's venue call
\* has returned, an empty response included, and it is written then; the
\* attempts and waits of one chunk fetch neither read it again nor write it,
\* and a call that fails after its retries leaves it as it was.
C25_TimestampAfterSuccess ==
    /\ [](pc = "rate_record" => LastCall.result = "returned")
    /\ [][TimestampStep]_vars

\* The first chunk returned and the timestamp was written; the second chunk
\* failed on its fifth attempt, and the timestamp has only aged since.
C25_Witness ==
    /\ pc = "done" /\ outcome.kind = "raised"
    /\ NumCalls = 2 /\ attempt_number = stop_max_attempt_number
    /\ LastCall.result \in Exceptions
    /\ rate_limit = << AgeCap >>

-----------------------------------------------------------------------------
(* Latest-value keys under concurrent workers.                             *)

\* Two tasks were delivered, one to each worker, with different batches, and
\* both ran to their end.
BothWorkersFinished ==
    /\ deliveries = 2
    /\ \A w \in Workers : worker[w].status = "done"
    /\ \A w, v \in Workers : w # v => worker[w].ticks # worker[v].ticks

\* C26: once concurrent workers that processed different batches have all
\* finished, the snapshot key holds the last element of the global tick log
\* and each instrument's last-price key holds the last_price of the last
\* element of that instrument's list.
C26_LatestKeysMatchLists ==
    BothWorkersFinished =>
        /\ kt_snapshot = << kt_tick_data[Len(kt_tick_data)] >>
        /\ \A token \in InstrumentTokens :
              kt_ticks[token] # << >> =>
                  kt_ltp[token] =
                      << Repr(kt_ticks[token][Len(kt_ticks[token])].last_price) >>

-----------------------------------------------------------------------------
(* A request that yields no data.                                          *)

\* The call has ended, every chunk fetch it issued returned, and none
\* returned a row.
NoChunkYieldedData ==
    /\ pc = "done" /\ NumCalls >= 1
    /\ \A k \in 1..NumCalls :
          venue_calls[k].result = "returned" /\ venue_calls[k].rows = << >>

\* C27: when no fetched chunk yields data historical_data raises instead of
\* returning an empty dataset: in the single-call path the one empty frame
\* has no record_datetime column, in the chunked path the empty first chunk
\* leaves nothing to concatenate; a returned dataset is never empty.
C27_NoDataRaises ==
    /\ NoChunkYieldedData =>
          /\ NumCalls = 1
          /\ outcome.kind = "raised" /\ outcome.df = << >>
          /\ outcome.exc = IF chunked THEN "ValueError" ELSE "KeyError"
    /\ outcome.kind = "returned" => outcome.df # << >>

\* The first chunk of a chunked request came back empty and the call raised.
C27_Witness ==
    /\ NoChunkYieldedData /\ chunked
    /\ historical_dfs = << >>
    /\ outcome = Raised("ValueError")

=========================================================================
